---- MODULE Spec2Model ----
(***************************************************************************)
(* Model of the splits/statistics aggregation engine of the MLB batter     *)
(* dashboard (src/splits.py, src/utils.py).                                *)
(*                                                                         *)
(* A pitch table (pandas DataFrame) is a record [cols, rows]: the set of   *)
(* column names it carries and the sequence of its rows.  Rate statistics  *)
(* (floats rounded to 3 decimals in the source) are integers counting      *)
(* thousandths; an unrounded rate is an exact fraction [n, d].             *)
(***************************************************************************)
EXTENDS Integers, Sequences, FiniteSets, TLC

VARIABLES
    df,     \* the pitch table handed to the core (the caller's object)
    out,    \* the result of the latest call into the core
    session \* st.session_state and what the page last showed

vars == <<df, out, session>>

(***************************************************************************)
(* Bounds of the model.                                                    *)
(***************************************************************************)
MaxRows == 4        \* rows of the pitch table in the aggregator runs
MaxSplitRows == 3   \* rows of the pitch table in the classifier runs

(***************************************************************************)
(* Missing values.  NaN marks a null in a text column, NA in a numeric one.*)
(***************************************************************************)
NaN == "NaN"
NA == -999

\* pd.notna / Series.notna on a text column and on a numeric column
notna(v) == v # NaN
notna_num(v) == v # NA

(***************************************************************************)
(* The membership lists calculate_stats tests the `events` column against. *)
(***************************************************************************)
HitEvents == {"single", "double", "triple", "home_run"}
WalkEvents == {"walk"}
IntentWalkEvents == {"intent_walk"}
HbpEvents == {"hit_by_pitch"}
StrikeoutEvents == {"strikeout", "strikeout_double_play"}
SacHitEvents == {"sac_bunt", "sac_bunt_double_play"}
SacFlyEvents == {"sac_fly", "sac_fly_double_play"}
SacDoublePlayEvents == {"sac_bunt_double_play", "sac_fly_double_play"}

\* events['events'].str.contains('double_play'): the events of the vocabulary
\* whose name has the substring "double_play".
ContainsDoublePlay ==
    { "strikeout_double_play", "grounded_into_double_play",
      "sac_fly_double_play", "sac_bunt_double_play", "double_play" }

rbi_eligible_events ==
    { "single", "double", "triple", "home_run", "sac_fly",
      "sac_fly_double_play", "field_out", "grounded_into_double_play" }

RbiWalkEvents == {"walk", "intent_walk", "hit_by_pitch"}

(***************************************************************************)
(* Columns of the pitch table.                                             *)
(***************************************************************************)
AllCols ==
    { "game_pk", "at_bat_number", "pitch_number", "events", "description",
      "p_throws", "inning_topbot", "inning", "outs_when_up", "on_1b",
      "on_2b", "on_3b", "bat_score_diff", "bat_score", "post_bat_score",
      "delta_run_exp", "home_team", "game_date", "balls", "strikes",
      "plate_x", "plate_z", "zone", "pitcher" }

\* A pitch with every situational column at a neutral value; the data source
\* of each specification overrides the columns it varies.
BaseRow ==
    [ game_pk |-> 1, at_bat_number |-> 1, pitch_number |-> 1,
      events |-> NaN, description |-> "ball", p_throws |-> "R",
      inning_topbot |-> "Top", inning |-> 1, outs_when_up |-> 0,
      on_1b |-> NA, on_2b |-> NA, on_3b |-> NA, bat_score_diff |-> 0,
      bat_score |-> 0, post_bat_score |-> 0, delta_run_exp |-> 0,
      home_team |-> "NYY", game_date |-> 20240401, balls |-> 0,
      strikes |-> 0, plate_x |-> 0, plate_z |-> 250, zone |-> 5,
      pitcher |-> 1 ]

(***************************************************************************)
(* DataFrame helpers.                                                      *)
(***************************************************************************)
Frame(cols, rows) == [cols |-> cols, rows |-> rows]

\* df[mask]
Filter(d, P(_)) == Frame(d.cols, SelectSeq(d.rows, P))

\* mask.sum(), series.isin(...).sum()
Count(rows, P(_)) == Cardinality({i \in DOMAIN rows : P(rows[i])})

\* a grouping over the outcome rows only: the plate appearances that
\* were completed within the table
GroupKeysCompleted(rows) ==
    {<<rows[i].game_pk, rows[i].at_bat_number>> :
        i \in {j \in DOMAIN rows : rows[j].events # NaN}}

\* a grouping that keys plate appearances by game alone
GroupKeysByGame(rows) == {<<rows[i].game_pk>> : i \in DOMAIN rows}

\* df.groupby(['game_pk', 'at_bat_number']).size(): the index of the groups
GroupKeys(rows) ==
    {<<rows[i].game_pk, rows[i].at_bat_number>> : i \in DOMAIN rows}

RECURSIVE SumSeq(_)
SumSeq(s) == IF s = <<>> THEN 0 ELSE Head(s) + SumSeq(Tail(s))

\* the accumulation `total += f(row)` over the rows
SumOver(rows, f(_)) == SumSeq([i \in DOMAIN rows |-> f(rows[i])])

(***************************************************************************)
(* Rates.  A rate is kept as an exact fraction until it is rounded.        *)
(***************************************************************************)
\* `num / den if cond else 0`
Rate(num, den, cond) ==
    IF cond THEN [n |-> num, d |-> den] ELSE [n |-> 0, d |-> 1]

\* ops = obp + slg (on the unrounded values)
RateAdd(a, b) == [n |-> a.n * b.d + b.n * a.d, d |-> a.d * b.d]

\* round(x, 3) in thousandths: nearest, ties to even (Python 3 round)
round3(x) ==
    LET q == (2000 * x.n + x.d) \div (2 * x.d)
        tie == (2000 * x.n + x.d) % (2 * x.d) = 0
    IN  IF tie /\ q % 2 = 1 THEN q - 1 ELSE q

(***************************************************************************)
(* CORE STATS CALCULATION                                                  *)
(***************************************************************************)
_empty_stats ==
    [ G |-> 0, PA |-> 0, AB |-> 0, R |-> 0, H |-> 0, 2B |-> 0, 3B |-> 0,
      HR |-> 0, RBI |-> 0, BB |-> 0, SO |-> 0, BA |-> 0, OBP |-> 0,
      SLG |-> 0, OPS |-> 0, TB |-> 0, GDP |-> 0, HBP |-> 0, SH |-> 0,
      SF |-> 0, IBB |-> 0, BAbip |-> 0 ]

\* score_change of one outcome row, credited when positive
ScoreCredit(r) ==
    IF notna_num(r.post_bat_score) /\ notna_num(r.bat_score)
        /\ r.post_bat_score - r.bat_score > 0
    THEN r.post_bat_score - r.bat_score
    ELSE 0

\* runs taken from the score change of the outcome rows
runs_from_score(events) == SumOver(events, ScoreCredit)

\* Runs: not available in pitch-by-pitch data, set to 0
runs(events) == 0

\* one iteration of the loop with the walk branch taken whatever the bases
RbiOfRowAnyWalk(r) ==
    IF r.events \in rbi_eligible_events THEN ScoreCredit(r)
    ELSE IF r.events \in RbiWalkEvents
         THEN ScoreCredit(r)
         ELSE 0

\* one iteration of the `for idx, event_row in events.iterrows()` loop
RbiOfRow(r) ==
    IF r.events \in rbi_eligible_events THEN ScoreCredit(r)
    ELSE IF r.events \in RbiWalkEvents
            /\ notna_num(r.on_1b) /\ notna_num(r.on_2b) /\ notna_num(r.on_3b)
         THEN ScoreCredit(r)
         ELSE 0

\* the delta_run_exp fallback (hundredths of a run, truncated by int())
RbiFallbackOfRow(r) ==
    IF r.events \in rbi_eligible_events /\ notna_num(r.delta_run_exp)
        /\ r.delta_run_exp > 0
    THEN r.delta_run_exp
    ELSE 0

Rbi(cols, events) ==
    IF "post_bat_score" \in cols /\ "bat_score" \in cols
    THEN SumOver(events, RbiOfRow)
    ELSE IF "delta_run_exp" \in cols
         THEN SumOver(events, RbiFallbackOfRow) \div 100
         ELSE 0

\* an at-bat count that forgets the sacrifice flies
AtBatsKeepSacFly(pa, bb, hbp, sac_hit, sac_fly) == pa - bb - hbp - sac_hit

\* ab = pa - bb - hbp - sac_hit - sac_fly
AtBats(pa, bb, hbp, sac_hit, sac_fly) == pa - bb - hbp - sac_hit - sac_fly

\* total bases that credit a home run with three bases
TotalBasesHr3(singles, doubles, triples, hr) ==
    singles + (2 * doubles) + (3 * triples) + (3 * hr)

\* tb = singles + (2 * doubles) + (3 * triples) + (4 * hr)
TotalBases(singles, doubles, triples, hr) ==
    singles + (2 * doubles) + (3 * triples) + (4 * hr)

\* an OPS assembled from the two rounded fields
OpsFieldOfRounded(obp, slg) == round3(obp) + round3(slg)

\* `if len(events) == 0` replaced by a test that never fires
NoOutcomesNever(events) == FALSE

\* if len(events) == 0: return _empty_stats()
NoOutcomes(events) == Len(events) = 0

\* 'OPS': round(ops, 3) with ops = obp + slg
OpsField(obp, slg) == round3(RateAdd(obp, slg))

calculate_stats(d) ==
    LET pa == Cardinality(GroupKeys(d.rows))
        events == SelectSeq(d.rows, LAMBDA r : notna(r.events))
        In(S) == Count(events, LAMBDA r : r.events \in S)
        hits == In(HitEvents)
        singles == In({"single"})
        doubles == In({"double"})
        triples == In({"triple"})
        hr == In({"home_run"})
        bb == In(WalkEvents)
        ibb == In(IntentWalkEvents)
        hbp == In(HbpEvents)
        so == In(StrikeoutEvents)
        sac_hit == In(SacHitEvents)
        sac_fly == In(SacFlyEvents)
        gdp == In(ContainsDoublePlay) - In(SacDoublePlayEvents)
        ab == AtBats(pa, bb, hbp, sac_hit, sac_fly)
        ba == Rate(hits, ab, ab > 0)
        obp == Rate(hits + bb + hbp, ab + bb + hbp + sac_fly,
                    (ab + bb + hbp + sac_fly) > 0)
        tb == TotalBases(singles, doubles, triples, hr)
        slg == Rate(tb, ab, ab > 0)
        balls_in_play == ab - so - hr
        hits_in_play == hits - hr
        babip == Rate(hits_in_play, balls_in_play, balls_in_play > 0)
        games == Cardinality({events[i].game_pk : i \in DOMAIN events})
    IN  IF NoOutcomes(events)
        THEN _empty_stats
        ELSE [ G |-> games, PA |-> pa, AB |-> ab, R |-> runs(events),
               H |-> hits, 2B |-> doubles, 3B |-> triples, HR |-> hr,
               RBI |-> Rbi(d.cols, events), BB |-> bb, SO |-> so,
               BA |-> round3(ba), OBP |-> round3(obp), SLG |-> round3(slg),
               OPS |-> OpsField(obp, slg), TB |-> tb, GDP |-> gdp,
               HBP |-> hbp, SH |-> sac_hit, SF |-> sac_fly, IBB |-> ibb,
               BAbip |-> round3(babip) ]

(***************************************************************************)
(* SPLIT FUNCTIONS.  A split table (the returned DataFrame) is the         *)
(* sequence of its rows, each a batting line with its Split label; the     *)
(* empty DataFrame is the empty sequence.                                  *)
(***************************************************************************)
\* stats = calculate_stats(...); stats['Split'] = label; results.append(stats)
SplitRow(label, d) == [Split |-> label] @@ calculate_stats(d)

\* `mask = ...; if mask.sum() > 0: ... results.append(stats)`
Bucket(label, d, P(_)) ==
    IF Count(d.rows, P) > 0 THEN <<SplitRow(label, Filter(d, P))>> ELSE <<>>

Abs(x) == IF x < 0 THEN -x ELSE x

\* the same values in descending order
RECURSIVE sorted_descending(_)
sorted_descending(S) ==
    IF S = {} THEN <<>>
    ELSE LET m == CHOOSE x \in S : \A y \in S : x >= y
         IN  <<m>> \o sorted_descending(S \ {m})

\* ascending order of a finite set of integers: sorted(...)
RECURSIVE sorted(_)
sorted(S) ==
    IF S = {} THEN <<>>
    ELSE LET m == CHOOSE x \in S : \A y \in S : x <= y
         IN  <<m>> \o sorted(S \ {m})

RECURSIVE Concat(_)
Concat(tables) ==
    IF tables = <<>> THEN <<>> ELSE Head(tables) \o Concat(Tail(tables))

KeyOf(r) == <<r.game_pk, r.at_bat_number>>

\* f'Within {n}R'
WithinLabel(n) == <<"Within 1R", "Within 2R", "Within 3R", "Within 4R">>[n]

\* the score margins of the "Within N runs" loop: for n in [1, 2, 3, 4]
WithinMargins == <<1, 2, 3, 4>>

\* a mask that keeps the pitches at a margin of exactly n
WithinMaskExact(r, n) == notna_num(r.bat_score_diff) /\ Abs(r.bat_score_diff) = n

\* mask = df['bat_score_diff'].abs() <= n  (a null margin compares False)
WithinMask(r, n) == notna_num(r.bat_score_diff) /\ Abs(r.bat_score_diff) <= n

\* columns get_clutch_splits reads without testing for them
ClutchRequired(cols) ==
    {"outs_when_up", "on_2b", "on_3b"}
        \cup (IF "bat_score_diff" \in cols THEN {"inning"} ELSE {})

get_clutch_splits(d) ==
    LET hasDiff == "bat_score_diff" \in d.cols
        diff(r) == r.bat_score_diff
        known(r) == notna_num(r.bat_score_diff)
    IN  Bucket("2 Outs, RISP", d,
               LAMBDA r : r.outs_when_up = 2
                          /\ (notna_num(r.on_2b) \/ notna_num(r.on_3b)))
        \o (IF hasDiff
            THEN Bucket("Late & Close", d,
                        LAMBDA r : r.inning >= 7 /\ WithinMask(r, 1))
            ELSE <<>>)
        \o (IF hasDiff
            THEN Bucket("Tie Game", d, LAMBDA r : known(r) /\ diff(r) = 0)
            ELSE <<>>)
        \o (IF hasDiff
            THEN Concat([i \in DOMAIN WithinMargins |->
                            Bucket(WithinLabel(WithinMargins[i]), d,
                                   LAMBDA r : WithinMask(r, WithinMargins[i]))])
                 \o Bucket("Margin >4R", d,
                           LAMBDA r : known(r) /\ Abs(diff(r)) > 4)
                 \o Bucket("Ahead", d, LAMBDA r : known(r) /\ diff(r) > 0)
                 \o Bucket("Behind", d, LAMBDA r : known(r) /\ diff(r) < 0)
            ELSE <<>>)

\* f'{balls}-{strikes} Count'
CountLabel(balls, strikes) ==
    << <<"0-0 Count", "0-1 Count", "0-2 Count">>,
       <<"1-0 Count", "1-1 Count", "1-2 Count">>,
       <<"2-0 Count", "2-1 Count", "2-2 Count">>,
       <<"3-0 Count", "3-1 Count", "3-2 Count">> >>[balls + 1][strikes + 1]

\* a grid whose outer loop stops one short: for balls in range(3)
CountGridThreeBalls ==
    << <<0, 0>>, <<0, 1>>, <<0, 2>>, <<1, 0>>, <<1, 1>>, <<1, 2>>,
       <<2, 0>>, <<2, 1>>, <<2, 2>> >>

\* for balls in range(4): for strikes in range(3)
CountGrid ==
    << <<0, 0>>, <<0, 1>>, <<0, 2>>, <<1, 0>>, <<1, 1>>, <<1, 2>>,
       <<2, 0>>, <<2, 1>>, <<2, 2>>, <<3, 0>>, <<3, 1>>, <<3, 2>> >>

after_counts ==
    << "After 1-0", "After 2-0", "After 3-0", "After 0-1", "After 1-1",
       "After 2-1", "After 3-1", "After 0-2", "After 1-2", "After 2-2" >>

aggregates ==
    << "Zero Balls", "Zero Strikes", "Three Balls", "Two Strikes",
       "Batter Ahead", "Even Count", "Pitcher Ahead" >>

\* masks that ask for exactly the balls of the count named
ReachedMaskExact(name, r) ==
    CASE name = "After 1-0" -> r.balls = 1 /\ r.strikes = 0
      [] name = "After 2-0" -> r.balls = 2 /\ r.strikes = 0
      [] name = "After 3-0" -> r.balls = 3 /\ r.strikes = 0
      [] name = "After 0-1" -> r.balls = 0 /\ r.strikes >= 1
      [] name = "After 1-1" -> r.balls = 1 /\ r.strikes >= 1
      [] name = "After 2-1" -> r.balls = 2 /\ r.strikes >= 1
      [] name = "After 3-1" -> r.balls = 3 /\ r.strikes >= 1
      [] name = "After 0-2" -> r.balls = 0 /\ r.strikes >= 2
      [] name = "After 1-2" -> r.balls = 1 /\ r.strikes >= 2
      [] name = "After 2-2" -> r.balls = 2 /\ r.strikes >= 2
      [] name = "Zero Balls" -> r.balls = 0
      [] name = "Zero Strikes" -> r.strikes = 0
      [] name = "Three Balls" -> r.balls = 3
      [] name = "Two Strikes" -> r.strikes = 2
      [] name = "Batter Ahead" -> r.balls > r.strikes
      [] name = "Even Count" -> r.balls = r.strikes
      [] name = "Pitcher Ahead" -> r.strikes > r.balls

\* the mask paired with each name of after_counts and aggregates
ReachedMask(name, r) ==
    CASE name = "After 1-0" -> r.balls >= 1 /\ r.strikes = 0
      [] name = "After 2-0" -> r.balls >= 2 /\ r.strikes = 0
      [] name = "After 3-0" -> r.balls >= 3 /\ r.strikes = 0
      [] name = "After 0-1" -> r.balls = 0 /\ r.strikes >= 1
      [] name = "After 1-1" -> r.balls >= 1 /\ r.strikes >= 1
      [] name = "After 2-1" -> r.balls >= 2 /\ r.strikes >= 1
      [] name = "After 3-1" -> r.balls >= 3 /\ r.strikes >= 1
      [] name = "After 0-2" -> r.balls = 0 /\ r.strikes >= 2
      [] name = "After 1-2" -> r.balls >= 1 /\ r.strikes >= 2
      [] name = "After 2-2" -> r.balls >= 2 /\ r.strikes >= 2
      [] name = "Zero Balls" -> r.balls = 0
      [] name = "Zero Strikes" -> r.strikes = 0
      [] name = "Three Balls" -> r.balls = 3
      [] name = "Two Strikes" -> r.strikes = 2
      [] name = "Batter Ahead" -> r.balls > r.strikes
      [] name = "Even Count" -> r.balls = r.strikes
      [] name = "Pitcher Ahead" -> r.strikes > r.balls

\* an iteration that looks for the count on the outcome rows only
ReachedBucketAtOutcome(name, d, events_df) ==
    Bucket(name, events_df, LAMBDA r : ReachedMask(name, r))

\* one iteration of `for name, mask in after_counts` / `in aggregates`
ReachedBucket(name, d, events_df) ==
    LET pa_keys == GroupKeys(SelectSeq(d.rows, LAMBDA r : ReachedMask(name, r)))
    IN  IF pa_keys # {}
        THEN Bucket(name, events_df, LAMBDA r : KeyOf(r) \in pa_keys)
        ELSE <<>>

get_count_splits(d) ==
    LET events_df == Filter(d, LAMBDA r : notna(r.events))
    IN  IF Len(events_df.rows) = 0
        THEN <<>>
        ELSE Concat([i \in DOMAIN CountGrid |->
                        Bucket(CountLabel(CountGrid[i][1], CountGrid[i][2]),
                               events_df,
                               LAMBDA r : r.balls = CountGrid[i][1]
                                          /\ r.strikes = CountGrid[i][2])])
             \o Bucket("Full Count", events_df,
                       LAMBDA r : r.balls = 3 /\ r.strikes = 2)
             \o Concat([i \in DOMAIN after_counts |->
                           ReachedBucket(after_counts[i], d, events_df)])
             \o Concat([i \in DOMAIN aggregates |->
                           ReachedBucket(aggregates[i], d, events_df)])

swung_descriptions ==
    { "swinging_strike", "foul", "foul_tip", "hit_into_play",
      "swinging_strike_blocked", "foul_bunt", "missed_bunt",
      "bunt_foul_tip", "foul_pitchout" }

took_descriptions ==
    { "ball", "called_strike", "blocked_ball", "pitchout", "hit_by_pitch",
      "intent_ball" }

\* `if len(abs) > 0: calculate_stats(df.merge(abs, on=[keys], how='inner'))`
FirstPitchBucket(label, d, abs) ==
    IF abs # {}
    THEN <<SplitRow(label, Filter(d, LAMBDA r : KeyOf(r) \in abs))>>
    ELSE <<>>

\* the same split taken over every pitch, not only those numbered 1
get_any_pitch_splits(d) ==
    LET swung_abs ==
            GroupKeys(SelectSeq(d.rows,
                                LAMBDA r : r.description \in swung_descriptions))
        took_abs ==
            GroupKeys(SelectSeq(d.rows,
                                LAMBDA r : r.description \in took_descriptions))
    IN  IF Len(d.rows) = 0
        THEN <<>>
        ELSE FirstPitchBucket("Swung 1st Pitch", d, swung_abs)
             \o FirstPitchBucket("Took 1st Pitch", d, took_abs)

get_first_pitch_splits(d) ==
    LET first_pitch == SelectSeq(d.rows, LAMBDA r : r.pitch_number = 1)
        swung_abs ==
            GroupKeys(SelectSeq(first_pitch,
                                LAMBDA r : r.description \in swung_descriptions))
        took_abs ==
            GroupKeys(SelectSeq(first_pitch,
                                LAMBDA r : r.description \in took_descriptions))
    IN  IF Len(first_pitch) = 0
        THEN <<>>
        ELSE FirstPitchBucket("Swung 1st Pitch", d, swung_abs)
             \o FirstPitchBucket("Took 1st Pitch", d, took_abs)

\* the park codes of the model in alphabetical order: sorted(ballparks)
ParkOrder == <<"BOS", "NYY", "SEA">>

get_ballpark_splits(d) ==
    IF "home_team" \notin d.cols
    THEN <<>>
    ELSE LET ballparks ==
                {d.rows[i].home_team : i \in DOMAIN d.rows} \ {NaN}
             parks == SelectSeq(ParkOrder, LAMBDA p : p \in ballparks)
         IN  Concat([i \in DOMAIN parks |->
                        Bucket(parks[i], d,
                               LAMBDA r : r.home_team = parks[i])])

\* f'Inning {int(inning)}'
InningLabel(inning) ==
    << "Inning 1", "Inning 2", "Inning 3", "Inning 4", "Inning 5",
       "Inning 6", "Inning 7", "Inning 8", "Inning 9", "Inning 10",
       "Inning 11", "Inning 12" >>[inning]

get_inning_splits(d) ==
    IF "inning" \notin d.cols
    THEN <<>>
    ELSE LET innings ==
                sorted({d.rows[i].inning : i \in DOMAIN d.rows} \ {NA})
         IN  Concat([i \in DOMAIN innings |->
                        Bucket(InningLabel(innings[i]), d,
                               LAMBDA r : r.inning = innings[i])])

get_platoon_splits(d) ==
    IF "p_throws" \notin d.cols
    THEN <<>>
    ELSE Bucket("vs LHP", d, LAMBDA r : r.p_throws = "L")
         \o Bucket("vs RHP", d, LAMBDA r : r.p_throws = "R")

get_home_away_splits(d) ==
    IF "inning_topbot" \notin d.cols
    THEN <<>>
    ELSE Bucket("Home", d, LAMBDA r : r.inning_topbot = "Bot")
         \o Bucket("Away", d, LAMBDA r : r.inning_topbot = "Top")

\* pd.to_datetime(game_date).dt.month of a date written YYYYMMDD
MonthOf(game_date) == (game_date \div 100) % 100

\* a month_names whose entry for 4 repeats the name of 3
MonthLabelRepeated(month) ==
    << "Month 1", "Month 2", "March", "March", "May", "June", "July",
       "August", "September", "October", "Month 11", "Month 12" >>[month]

\* month_names.get(month, f'Month {month}')
MonthLabel(month) ==
    << "Month 1", "Month 2", "March", "April", "May", "June", "July",
       "August", "September", "October", "Month 11", "Month 12" >>[month]

\* the frame get_month_splits works on: game_date parsed, 'month' added
WithMonth(d) == Frame(d.cols \cup {"month"}, d.rows)

get_month_splits(d) ==
    IF "game_date" \notin d.cols
    THEN <<>>
    ELSE LET df_copy == WithMonth(d)
             months ==
                sorted({MonthOf(d.rows[i].game_date) : i \in DOMAIN d.rows})
         IN  Concat([i \in DOMAIN months |->
                        Bucket(MonthLabel(months[i]), df_copy,
                               LAMBDA r : MonthOf(r.game_date) = months[i])])

\* columns each classifier reads without testing for them, beyond the
\* identity, count and outcome columns every table of the model carries
Required(fn, cols) ==
    IF fn \in {"get_clutch_splits", "get_all_splits"}
    THEN ClutchRequired(cols)
    ELSE {}

\* a KeyError: some column the function reads unconditionally is absent
Raises(fn, d) == ~(Required(fn, d.cols) \subseteq d.cols)

SplitNames ==
    << "clutch", "count", "first_pitch", "ballpark", "inning", "platoon",
       "home_away", "month" >>

SplitOf(name, d) ==
    CASE name = "clutch" -> get_clutch_splits(d)
      [] name = "count" -> get_count_splits(d)
      [] name = "first_pitch" -> get_first_pitch_splits(d)
      [] name = "ballpark" -> get_ballpark_splits(d)
      [] name = "inning" -> get_inning_splits(d)
      [] name = "platoon" -> get_platoon_splits(d)
      [] name = "home_away" -> get_home_away_splits(d)
      [] name = "month" -> get_month_splits(d)

\* {k: v for k, v in splits.items() if not v.empty}
get_all_splits(d) ==
    LET kept == {i \in DOMAIN SplitNames : SplitOf(SplitNames[i], d) # <<>>}
    IN  [k \in {SplitNames[i] : i \in kept} |-> SplitOf(k, d)]

(***************************************************************************)
(* ZONE BATTING AVERAGE (utils.py).  plate_x and plate_z are hundredths of *)
(* a foot; a cell's batting_avg is the unrounded quotient hits / abs.      *)
(***************************************************************************)
at_bat_events ==
    { "single", "double", "triple", "home_run", "field_out", "force_out",
      "grounded_into_double_play", "strikeout", "strikeout_double_play",
      "fielders_choice_out", "double_play", "triple_play", "field_error",
      "fielders_choice" }

\* pd.cut with right=False: the bins closed on the left, open on the right
cut_left_closed(x, bins, labels) ==
    IF x = NA THEN NaN
    ELSE IF bins[1] <= x /\ x < bins[2] THEN labels[1]
    ELSE IF bins[2] <= x /\ x < bins[3] THEN labels[2]
    ELSE IF bins[3] <= x /\ x < bins[4] THEN labels[3]
    ELSE NaN

\* pd.cut(x, bins=[b0, b1, b2, b3], labels=[l1, l2, l3]): the bins are open
\* on the left and closed on the right; a value outside them gets no label
cut(x, bins, labels) ==
    IF x = NA THEN NaN
    ELSE IF bins[1] < x /\ x <= bins[2] THEN labels[1]
    ELSE IF bins[2] < x /\ x <= bins[3] THEN labels[2]
    ELSE IF bins[3] < x /\ x <= bins[4] THEN labels[3]
    ELSE NaN

zone_x(r) == cut(r.plate_x, <<-100, -33, 33, 100>>, <<"Left", "Middle", "Right">>)
zone_z(r) == cut(r.plate_z, <<150, 230, 310, 390>>, <<"Low", "Mid", "High">>)

\* the category order in which groupby lists the observed cells
ZoneCells ==
    << <<"Left", "Low">>, <<"Left", "Mid">>, <<"Left", "High">>,
       <<"Middle", "Low">>, <<"Middle", "Mid">>, <<"Middle", "High">>,
       <<"Right", "Low">>, <<"Right", "Mid">>, <<"Right", "High">> >>

calculate_zone_batting_average(d) ==
    LET kept == SelectSeq(d.rows,
                    LAMBDA r : /\ notna_num(r.plate_x) /\ notna_num(r.plate_z)
                               /\ notna(r.events)
                               /\ r.events \in at_bat_events)
        cell(c) == SelectSeq(kept,
                      LAMBDA r : zone_x(r) = c[1] /\ zone_z(r) = c[2])
        observed == SelectSeq(ZoneCells, LAMBDA c : Len(cell(c)) > 0)
    IN  [i \in DOMAIN observed |->
            LET c == observed[i]
                hits == Count(cell(c), LAMBDA r : r.events \in HitEvents)
                abs == Len(cell(c))
            IN  [ plate_x |-> c[1], plate_z |-> c[2], hits |-> hits,
                  abs |-> abs,
                  batting_avg |-> Rate(hits, abs, abs > 0) ]]

(***************************************************************************)
(* The data source.  Rows arrive plate appearance by plate appearance, in  *)
(* pitch order; a pitch that carries an event ends its plate appearance    *)
(* (spec section 3), and the filter in front of the core may have dropped  *)
(* any of the pitches, so a plate appearance may lack its terminal pitch   *)
(* or its first one.  A source profile S names the values each varied      *)
(* column is drawn from; the half-inning, inning, park and date are those  *)
(* of the plate appearance, the other columns may change between pitches.  *)
(***************************************************************************)
NoCall == [fn |-> "none", raised |-> FALSE, val |-> <<>>]

Returned(fn, val) == [fn |-> fn, raised |-> FALSE, val |-> val]

KeyError(fn) == [fn |-> fn, raised |-> TRUE, val |-> <<>>]

BaseSource ==
    [ events |-> {NaN}, newgame |-> {FALSE}, terminal |-> TRUE,
      first |-> {1}, description |-> {BaseRow.description},
      p_throws |-> {BaseRow.p_throws},
      inning_topbot |-> {BaseRow.inning_topbot},
      inning |-> {BaseRow.inning}, outs_when_up |-> {BaseRow.outs_when_up},
      on_2b |-> {BaseRow.on_2b}, bat_score_diff |-> {BaseRow.bat_score_diff},
      post_bat_score |-> {BaseRow.post_bat_score},
      home_team |-> {BaseRow.home_team}, game_date |-> {BaseRow.game_date},
      balls |-> {BaseRow.balls}, strikes |-> {BaseRow.strikes},
      bat_score |-> {BaseRow.bat_score}, on_1b |-> {BaseRow.on_1b},
      on_3b |-> {BaseRow.on_3b}, plate_x |-> {BaseRow.plate_x},
      plate_z |-> {BaseRow.plate_z}, zone |-> {BaseRow.zone},
      pitcher |-> {BaseRow.pitcher} ]

\* the identity columns of the next pitch
NextPitch(rows, newpa, newgame, first) ==
    LET n == Len(rows)
        last == rows[n]
    IN  [ BaseRow EXCEPT
            !.game_pk = IF n = 0 THEN 1
                        ELSE IF newgame THEN last.game_pk + 1
                        ELSE last.game_pk,
            !.at_bat_number = IF n = 0 \/ newgame THEN 1
                              ELSE IF newpa THEN last.at_bat_number + 1
                              ELSE last.at_bat_number,
            !.pitch_number = IF n = 0 \/ newpa THEN first
                             ELSE last.pitch_number + 1 ]

AddPitch(S, max) ==
    /\ out = NoCall
    /\ Len(df.rows) < max
    /\ \E newpa \in BOOLEAN, newgame \in S.newgame, first \in S.first,
          ev \in S.events, de \in S.description, pt \in S.p_throws,
          tb \in S.inning_topbot, inn \in S.inning,
          outs \in S.outs_when_up, o2 \in S.on_2b,
          diff \in S.bat_score_diff, post \in S.post_bat_score,
          park \in S.home_team, date \in S.game_date,
          b \in S.balls, s \in S.strikes, bat \in S.bat_score,
          o1 \in S.on_1b, o3 \in S.on_3b, px \in S.plate_x,
          pz \in S.plate_z, zn \in S.zone, pit \in S.pitcher :
        LET n == Len(df.rows)
            last == df.rows[n]
            id == NextPitch(df.rows, newpa, newgame, first)
        IN  /\ newgame => newpa
            /\ n = 0 => (newpa /\ ~newgame)
            /\ (~newpa /\ S.terminal) => last.events = NaN
            /\ ~newpa => /\ first = 1
                         /\ tb = last.inning_topbot /\ inn = last.inning
                         /\ park = last.home_team /\ date = last.game_date
            /\ df' = Frame(df.cols,
                       Append(df.rows,
                         [ id EXCEPT
                             !.events = ev, !.description = de,
                             !.p_throws = pt, !.inning_topbot = tb,
                             !.inning = inn, !.outs_when_up = outs,
                             !.on_2b = o2, !.bat_score_diff = diff,
                             !.post_bat_score = post, !.home_team = park,
                             !.game_date = date, !.balls = b,
                             !.strikes = s, !.bat_score = bat,
                             !.on_1b = o1, !.on_3b = o3, !.plate_x = px,
                             !.plate_z = pz, !.zone = zn,
                             !.pitcher = pit ]))
    /\ UNCHANGED <<out, session>>

(***************************************************************************)
(* Calls into the core.  A call leaves its result in `out`; `df` becomes   *)
(* what the caller's table is once the callee has returned.                *)
(***************************************************************************)
\* df.copy(): the callee's later writes go to a new object
copy(d) == [alias |-> FALSE, frame |-> d]

\* no copy: the callee's name is bound to the caller's object
copy_skipped(d) == [alias |-> TRUE, frame |-> d]

\* df_copy = df.copy() of get_month_splits
df_copy(d) == copy(d)

\* the caller's table after fn(d) returned (or raised).  Only
\* get_month_splits assigns columns, and only to df_copy; the zone table
\* assigns zone_x and zone_z to the frame dropna() and the event filter
\* returned; every other function only reads.
CallerFrameAfter(fn, d) ==
    IF fn = "get_month_splits" /\ "game_date" \in d.cols
        /\ df_copy(d).alias
    THEN WithMonth(d)
    ELSE d

\* categorize_count with the full-count test ahead of the two-strike test
categorize_count_full_first(row) ==
    LET balls == row.balls
        strikes == row.strikes
    IN  IF balls = 3 /\ strikes = 2 THEN "Full count situations"
        ELSE IF strikes = 2 THEN "2-strike (pressure)"
        ELSE IF notna_num(balls) /\ balls >= 2 /\ strikes = 0
             THEN "Hitter ahead (2-0, 3-0)"
        ELSE IF notna_num(balls) /\ notna_num(strikes) /\ strikes >= balls
             THEN "Pitcher ahead"
        ELSE "Hitter ahead"

\* the if / elif chain in its order; a comparison with a null is false
categorize_count(row) ==
    LET balls == row.balls
        strikes == row.strikes
    IN  IF strikes = 2 THEN "2-strike (pressure)"
        ELSE IF notna_num(balls) /\ balls >= 2 /\ strikes = 0
             THEN "Hitter ahead (2-0, 3-0)"
        ELSE IF balls = 3 /\ strikes = 2 THEN "Full count situations"
        ELSE IF notna_num(balls) /\ notna_num(strikes) /\ strikes >= balls
             THEN "Pitcher ahead"
        ELSE "Hitter ahead"

swing_descriptions ==
    { "swinging_strike", "swinging_strike_blocked", "foul", "foul_tip",
      "hit_into_play", "hit_into_play_score", "hit_into_play_no_out",
      "foul_bunt", "missed_bunt", "swinging_pitchout" }

\* zone.apply(lambda x: x <= 9 if pd.notna(x) else None)
in_zone(row) ==
    IF notna_num(row.zone) THEN (IF row.zone <= 9 THEN "True" ELSE "False")
    ELSE "None"

\* the swung column: description.isin(swing_descriptions)
swung_at(row) == row.description \in swing_descriptions

\* the situations the chart reports, in its order
situations == <<"Hitter ahead", "Pitcher ahead", "2-strike (pressure)">>

\* rate = num / den * 100 if den > 0 else 0
Percent(num, den) == Rate(100 * num, den, den > 0)

\* the numbers chase_rate shows, with the three columns it adds to its copy
chase_rate(d) ==
    LET rows == d.rows
        out_rows == SelectSeq(rows, LAMBDA r : in_zone(r) = "False")
        in_rows == SelectSeq(rows, LAMBDA r : in_zone(r) = "True")
        total_pitches_out == Len(out_rows)
        swings_out == Len(SelectSeq(out_rows, swung_at))
        total_pitches_in == Len(in_rows)
        swings_in == Len(SelectSeq(in_rows, swung_at))
    IN  [ in_zone |-> [i \in DOMAIN rows |-> in_zone(rows[i])],
          count_situation |-> [i \in DOMAIN rows |-> categorize_count(rows[i])],
          total_pitches_out |-> total_pitches_out,
          swings_out |-> swings_out,
          total_pitches_in |-> total_pitches_in,
          swings_in |-> swings_in,
          chase_rate |-> Percent(swings_out, total_pitches_out),
          zone_swing_rate |-> Percent(swings_in, total_pitches_in),
          chase_data |->
            [k \in DOMAIN situations |->
                LET out_zone ==
                        SelectSeq(out_rows,
                            LAMBDA r : categorize_count(r) = situations[k])
                    chase_swings == Len(SelectSeq(out_zone, swung_at))
                    total_out == Len(out_zone)
                IN  [ Situation |-> situations[k],
                      chase_swings |-> chase_swings,
                      total_out |-> total_out,
                      rate |-> Percent(chase_swings, total_out) ]] ]

Apply(fn, d) ==
    CASE fn = "calculate_stats" -> calculate_stats(d)
      [] fn = "get_clutch_splits" -> get_clutch_splits(d)
      [] fn = "get_count_splits" -> get_count_splits(d)
      [] fn = "get_first_pitch_splits" -> get_first_pitch_splits(d)
      [] fn = "get_ballpark_splits" -> get_ballpark_splits(d)
      [] fn = "get_inning_splits" -> get_inning_splits(d)
      [] fn = "get_platoon_splits" -> get_platoon_splits(d)
      [] fn = "get_home_away_splits" -> get_home_away_splits(d)
      [] fn = "get_month_splits" -> get_month_splits(d)
      [] fn = "get_all_splits" -> get_all_splits(d)
      [] fn = "calculate_zone_batting_average" ->
            calculate_zone_batting_average(d)
      [] fn = "chase_rate" -> chase_rate(d)

\* `again`: whether the caller may repeat the call it has just made
Call(fn, again) ==
    /\ out = NoCall \/ (again /\ out.fn = fn)
    /\ out' = IF Raises(fn, df) THEN KeyError(fn) ELSE Returned(fn, Apply(fn, df))
    /\ df' = CallerFrameAfter(fn, df)
    /\ UNCHANGED session

(***************************************************************************)
(* Aggregator runs: the table varies in its plate appearances and events.  *)
(***************************************************************************)
StatsEvents ==
    { NaN, "single", "double", "triple", "home_run", "walk", "intent_walk",
      "hit_by_pitch", "strikeout", "sac_fly", "sac_bunt", "field_out" }

StatsSource == [BaseSource EXCEPT !.events = StatsEvents]

LoadStats == AddPitch(StatsSource, MaxRows)

CallCalculateStats == Call("calculate_stats", FALSE)

\* the session before any load: 'data' is not in st.session_state
NoPlayer == "None"
NoDate == 0

NoPage ==
    [ player_name |-> NoPlayer, start_date |-> NoDate, end_date |-> NoDate,
      validation_errors |-> <<>>, load_button_disabled |-> TRUE,
      raised |-> FALSE, fetch |-> FALSE, error |-> FALSE ]

NoSession ==
    [ loaded |-> FALSE, player_name |-> NoPlayer, start_date |-> NoDate,
      end_date |-> NoDate, data |-> <<NoDate, NoDate>>,
      batting_data |-> <<NoPlayer, NoDate, NoDate>>, bio |-> NoPlayer,
      page |-> NoPage ]

Init ==
    /\ df = Frame(AllCols, <<>>)
    /\ out = NoCall
    /\ session = NoSession

Next ==
    \/ LoadStats
    \/ CallCalculateStats

Spec == Init /\ [][Next]_vars

(***************************************************************************)
(* Aggregator runs on arbitrary tables: several games, and rows that need  *)
(* not respect the one-terminal-pitch rule of the data model (a plate      *)
(* appearance may carry several outcome rows).                             *)
(***************************************************************************)
AnyEvents == {NaN, "single", "home_run", "walk", "sac_fly"}

AnySource ==
    [BaseSource EXCEPT !.events = AnyEvents, !.newgame = BOOLEAN,
                       !.terminal = FALSE]

LoadAny == AddPitch(AnySource, MaxRows)

NextAny ==
    \/ LoadAny
    \/ CallCalculateStats

SpecAny == Init /\ [][NextAny]_vars

(***************************************************************************)
(* Properties of the aggregator, checked on the result of a call.          *)
(***************************************************************************)
StatsDone == out.fn = "calculate_stats"

OutcomeRows(rows) == SelectSeq(rows, LAMBDA r : notna(r.events))

\* every (game_pk, at_bat_number) group has at most one outcome row
OneOutcomePerPA(rows) ==
    \A i, j \in DOMAIN rows :
        (/\ notna(rows[i].events) /\ notna(rows[j].events)
         /\ rows[i].game_pk = rows[j].game_pk
         /\ rows[i].at_bat_number = rows[j].at_bat_number) => i = j

EventCount(rows, e) == Count(rows, LAMBDA r : r.events = e)

\* `field` (thousandths) is num/den rounded to the nearest thousandth, and 0
\* when the denominator is zero or negative
IsRounded(field, num, den) ==
    IF den > 0 THEN 2 * Abs(1000 * num - field * den) <= den ELSE field = 0

\* C1: for every input table, the line returned by calculate_stats has
\* AB + BB + HBP + SH + SF = PA.
C1_PlateAppearanceIdentity ==
    StatsDone =>
        LET s == out.val
        IN  s.AB + s.BB + s.HBP + s.SH + s.SF = s.PA

C1_Witness ==
    /\ StatsDone
    /\ out.val.BB >= 1 /\ out.val.SF >= 1 /\ out.val.HBP >= 1
    /\ out.val.AB >= 1 /\ out.val.PA = 4

\* C2: when every plate appearance of the input has at most one outcome row,
\* BA, OBP and SLG lie in 0..4 (0..4000 thousandths), AB is not negative and
\* H does not exceed AB.
C2_RatesInRange ==
    (StatsDone /\ OneOutcomePerPA(df.rows)) =>
        LET s == out.val
        IN  /\ s.BA \in 0..4000 /\ s.OBP \in 0..4000 /\ s.SLG \in 0..4000
            /\ s.AB >= 0
            /\ s.H <= s.AB

C2_Witness ==
    /\ StatsDone /\ OneOutcomePerPA(df.rows)
    /\ out.val.SLG = 4000 /\ out.val.H = 2 /\ out.val.PA = 3

\* the precondition of C2 matters: a table outside it has a negative AB
C2_OutsidePrecondition ==
    /\ StatsDone /\ ~OneOutcomePerPA(df.rows)
    /\ out.val.AB < 0

\* C3 as stated: the OPS field equals the sum of the OBP field and the SLG
\* field of the same line (all three rounded to 3 decimals).
C3_OpsIsSumOfFields ==
    StatsDone => out.val.OPS = out.val.OBP + out.val.SLG

\* C3 amended: the OPS field is the unrounded sum obp + slg rounded to 3
\* decimals, so it is within 0.001 of the sum of the OBP and SLG fields.
C3_OpsIsRoundedSum ==
    (StatsDone /\ Len(OutcomeRows(df.rows)) > 0) =>
        LET s == out.val
            on == s.H + s.BB + s.HBP
            od == s.AB + s.BB + s.HBP + s.SF
            obp == IF od > 0 THEN [n |-> on, d |-> od] ELSE [n |-> 0, d |-> 1]
            slg == IF s.AB > 0 THEN [n |-> s.TB, d |-> s.AB]
                   ELSE [n |-> 0, d |-> 1]
        IN  /\ IsRounded(s.OPS, obp.n * slg.d + slg.n * obp.d, obp.d * slg.d)
            /\ Abs(s.OPS - (s.OBP + s.SLG)) <= 1

C3_Witness ==
    /\ StatsDone
    /\ out.val.OBP = 333 /\ out.val.SLG = 333 /\ out.val.OPS = 667

\* C8: on a table with zero rows, or with rows of which none has an event,
\* calculate_stats returns the empty-stats constant (every counting stat 0,
\* every rate 0, PA = 0) and does not raise.
C8_EmptyInputGivesEmptyStats ==
    (StatsDone /\ Len(OutcomeRows(df.rows)) = 0) =>
        /\ ~out.raised
        /\ DOMAIN out.val =
              { "G", "PA", "AB", "R", "H", "2B", "3B", "HR", "RBI", "BB",
                "SO", "BA", "OBP", "SLG", "OPS", "TB", "GDP", "HBP", "SH",
                "SF", "IBB", "BAbip" }
        /\ \A k \in DOMAIN out.val : out.val[k] = 0

C8_Witness ==
    /\ StatsDone
    /\ Len(df.rows) = 3
    /\ Len(OutcomeRows(df.rows)) = 0
    /\ Cardinality(GroupKeys(df.rows)) = 2

\* C9: with at least one outcome row, BA = H/AB, OBP = (H+BB+HBP)/
\* (AB+BB+HBP+SF), TB = 1B + 2*2B + 3*3B + 4*HR, SLG = TB/AB and
\* BAbip = (H-HR)/(AB-SO-HR), each rounded to 3 decimals and 0 when its
\* denominator is not positive; single, walk, strikeout, home_run in four
\* plate appearances give PA=4, AB=3, H=2, HR=1, BB=1, SO=1, BA=.667,
\* SLG=1.667, OBP=.750, OPS=2.417.
C9_Scenario ==
    /\ Len(df.rows) = 4
    /\ Cardinality(GroupKeys(df.rows)) = 4
    /\ \A e \in {"single", "walk", "strikeout", "home_run"} :
           EventCount(df.rows, e) = 1

C9_RateFormulas ==
    (StatsDone /\ Len(OutcomeRows(df.rows)) > 0) =>
        LET s == out.val
            rows == df.rows
        IN  /\ s.H = Count(rows, LAMBDA r : r.events \in HitEvents)
            /\ s.HR = EventCount(rows, "home_run")
            /\ s["2B"] = EventCount(rows, "double")
            /\ s["3B"] = EventCount(rows, "triple")
            /\ s.TB = (s.H - s["2B"] - s["3B"] - s.HR) + 2 * s["2B"]
                        + 3 * s["3B"] + 4 * s.HR
            /\ IsRounded(s.BA, s.H, s.AB)
            /\ IsRounded(s.OBP, s.H + s.BB + s.HBP,
                         s.AB + s.BB + s.HBP + s.SF)
            /\ IsRounded(s.SLG, s.TB, s.AB)
            /\ IsRounded(s.BAbip, s.H - s.HR, s.AB - s.SO - s.HR)
            /\ C9_Scenario =>
                  /\ s.PA = 4 /\ s.AB = 3 /\ s.H = 2 /\ s.HR = 1
                  /\ s.BB = 1 /\ s.SO = 1 /\ s.BA = 667 /\ s.SLG = 1667
                  /\ s.OBP = 750 /\ s.OPS = 2417

C9_Witness == StatsDone /\ C9_Scenario

(***************************************************************************)
(* Partition runs: the platoon, home/away and first-pitch classifiers on   *)
(* tables whose pitches vary in pitcher hand (also within a plate          *)
(* appearance: a pitching change), half-inning and first-pitch result.     *)
(***************************************************************************)
PartitionSource ==
    [BaseSource EXCEPT !.events = {NaN, "single", "walk"},
                       !.p_throws = {"L", "R"},
                       !.inning_topbot = {"Top", "Bot"},
                       !.description = {"ball", "foul"}]

LoadPartition == AddPitch(PartitionSource, MaxSplitRows)
CallPlatoon == Call("get_platoon_splits", FALSE)
CallHomeAway == Call("get_home_away_splits", FALSE)
CallFirstPitch == Call("get_first_pitch_splits", FALSE)

NextPartition ==
    \/ LoadPartition
    \/ CallPlatoon
    \/ CallHomeAway
    \/ CallFirstPitch

SpecPartition == Init /\ [][NextPartition]_vars

\* sum of a stat over the rows of a split table
SumField(table, f) == SumSeq([i \in DOMAIN table |-> table[i][f]])

ClutchSource ==
    [BaseSource EXCEPT !.events = {NaN, "single"},
                       !.bat_score_diff = {0, -1, 2, -3, 4, 5}]

LoadClutch == AddPitch(ClutchSource, MaxSplitRows)
CallClutch == Call("get_clutch_splits", FALSE)

NextClutch ==
    \/ LoadClutch
    \/ CallClutch

SpecClutch == Init /\ [][NextClutch]_vars

\* the rows of a split table that carry the label
Labelled(table, label) == SelectSeq(table, LAMBDA row : row.Split = label)

\* C6: in the table of get_clutch_splits the PA of "Within 1R" <= PA of
\* "Within 2R" <= PA of "Within 3R" <= PA of "Within 4R" over the emitted
\* buckets, also when a narrower bucket has pitches but no outcome row.
C6_WithinMonotone ==
    out.fn = "get_clutch_splits" =>
        \A n, m \in 1..4 :
            \A a \in DOMAIN out.val, b \in DOMAIN out.val :
                (/\ n <= m
                 /\ out.val[a].Split = WithinLabel(n)
                 /\ out.val[b].Split = WithinLabel(m))
                    => out.val[a].PA <= out.val[b].PA

\* a run where the narrowest bucket is emitted from pitches alone (PA 0) and
\* the wider ones grow
C6_Witness ==
    /\ out.fn = "get_clutch_splits"
    /\ Len(Labelled(out.val, "Within 1R")) = 1
    /\ Labelled(out.val, "Within 1R")[1].PA = 0
    /\ Len(Labelled(out.val, "Within 2R")) = 1
    /\ Labelled(out.val, "Within 2R")[1].PA = 1
    /\ Len(Labelled(out.val, "Within 4R")) = 1
    /\ Labelled(out.val, "Within 4R")[1].PA = 2

(***************************************************************************)
(* Purity runs: every function of the core is called, once or repeatedly,  *)
(* on tables whose score columns show runs scoring.                        *)
(***************************************************************************)
FrameSource ==
    [BaseSource EXCEPT !.events = {NaN, "single", "home_run"},
                       !.post_bat_score = {0, 1}]

LoadFrame == AddPitch(FrameSource, MaxSplitRows)
RunCalculateStats == Call("calculate_stats", TRUE)
RunClutch == Call("get_clutch_splits", TRUE)
RunCount == Call("get_count_splits", TRUE)
RunFirstPitch == Call("get_first_pitch_splits", TRUE)
RunBallpark == Call("get_ballpark_splits", TRUE)
RunInning == Call("get_inning_splits", TRUE)
RunPlatoon == Call("get_platoon_splits", TRUE)
RunHomeAway == Call("get_home_away_splits", TRUE)
RunMonth == Call("get_month_splits", TRUE)
RunAllSplits == Call("get_all_splits", TRUE)
RunZone == Call("calculate_zone_batting_average", TRUE)

NextFrame ==
    \/ LoadFrame
    \/ RunCalculateStats
    \/ RunClutch
    \/ RunCount
    \/ RunFirstPitch
    \/ RunBallpark
    \/ RunInning
    \/ RunPlatoon
    \/ RunHomeAway
    \/ RunMonth
    \/ RunAllSplits
    \/ RunZone

SpecFrame == Init /\ [][NextFrame]_vars

Classifiers ==
    { "get_clutch_splits", "get_count_splits", "get_first_pitch_splits",
      "get_ballpark_splits", "get_inning_splits", "get_platoon_splits",
      "get_home_away_splits", "get_month_splits" }

C7_RunsAlwaysZero ==
    /\ out.fn = "calculate_stats" => out.val.R = 0
    /\ out.fn \in Classifiers => \A i \in DOMAIN out.val : out.val[i].R = 0
    /\ out.fn = "get_all_splits" =>
          \A k \in DOMAIN out.val :
              \A i \in DOMAIN out.val[k] : out.val[k][i].R = 0

C7_Witness ==
    /\ out.fn = "get_all_splits"
    /\ DOMAIN out.val = {SplitNames[i] : i \in DOMAIN SplitNames}
    /\ \E i \in DOMAIN df.rows :
          /\ df.rows[i].events = "home_run"
          /\ df.rows[i].post_bat_score > df.rows[i].bat_score
    /\ out.val["month"][1].RBI >= 1

(***************************************************************************)
(* Missing-column runs: the table lacks any of the columns below.          *)
(***************************************************************************)
MaxColsRows == 2    \* rows of the pitch table in the missing-column runs

OptionalCols ==
    { "bat_score_diff", "home_team", "p_throws", "inning", "inning_topbot",
      "game_date", "outs_when_up" }

ColsSource ==
    [BaseSource EXCEPT !.events = {NaN, "single"},
                       !.outs_when_up = {0, 2},
                       !.on_2b = {NA, 7}]

InitCols ==
    /\ \E absent \in SUBSET OptionalCols : df = Frame(AllCols \ absent, <<>>)
    /\ out = NoCall
    /\ session = NoSession

LoadCols == AddPitch(ColsSource, MaxColsRows)
TryClutch == Call("get_clutch_splits", FALSE)
TryBallpark == Call("get_ballpark_splits", FALSE)
TryInning == Call("get_inning_splits", FALSE)
TryPlatoon == Call("get_platoon_splits", FALSE)
TryHomeAway == Call("get_home_away_splits", FALSE)
TryMonth == Call("get_month_splits", FALSE)
TryAllSplits == Call("get_all_splits", FALSE)

NextCols ==
    \/ LoadCols
    \/ TryClutch
    \/ TryBallpark
    \/ TryInning
    \/ TryPlatoon
    \/ TryHomeAway
    \/ TryMonth
    \/ TryAllSplits

SpecCols == InitCols /\ [][NextCols]_vars

\* the columns each classifier's buckets are computed from
ColumnsUsed(fn) ==
    CASE fn = "get_clutch_splits" ->
            {"bat_score_diff", "outs_when_up", "on_2b", "on_3b", "inning"}
      [] fn = "get_ballpark_splits" -> {"home_team"}
      [] fn = "get_inning_splits" -> {"inning"}
      [] fn = "get_platoon_splits" -> {"p_throws"}
      [] fn = "get_home_away_splits" -> {"inning_topbot"}
      [] fn = "get_month_splits" -> {"game_date"}

\* C10: when a column a classifier requires is absent from the input, the
\* classifier returns an empty split table instead of failing, and
\* get_all_splits still returns (it does not fail because of it).
C10_MissingColumnGivesEmptyTable ==
    /\ (/\ out.fn \in { "get_clutch_splits", "get_ballpark_splits",
                        "get_inning_splits", "get_platoon_splits",
                        "get_home_away_splits", "get_month_splits" }
        /\ ~(ColumnsUsed(out.fn) \subseteq df.cols))
          => (~out.raised /\ out.val = <<>>)
    /\ out.fn = "get_all_splits" => ~out.raised

\* the two ways the code departs from C10
C10_ClutchNotEmpty ==
    /\ out.fn = "get_clutch_splits"
    /\ "bat_score_diff" \notin df.cols
    /\ ~out.raised
    /\ Len(out.val) = 1 /\ out.val[1].Split = "2 Outs, RISP"

C10_KeyErrorAbortsAll ==
    /\ out.fn = "get_all_splits"
    /\ df.cols = AllCols \ {"outs_when_up"}
    /\ out.raised

(***************************************************************************)
(* Columns of a split table.  A batting line is a dict, whose keys keep    *)
(* the order in which they were written; pd.DataFrame(results) takes its   *)
(* columns from the keys of the dicts in the order they are first seen.    *)
(***************************************************************************)
\* the keys of the dict calculate_stats returns, in the order it writes them
stats_keys ==
    << "G", "PA", "AB", "R", "H", "2B", "3B", "HR", "RBI", "BB", "SO", "BA",
       "OBP", "SLG", "OPS", "TB", "GDP", "HBP", "SH", "SF", "IBB", "BAbip" >>

\* the keys of the dict _empty_stats returns, in the order it writes them
empty_stats_keys ==
    << "G", "PA", "AB", "R", "H", "2B", "3B", "HR", "RBI", "BB", "SO", "BA",
       "OBP", "SLG", "OPS", "TB", "GDP", "HBP", "SH", "SF", "IBB", "BAbip" >>

\* the keys of one element of `results`: those of the batting line (only
\* the line of _empty_stats has PA 0), then 'Split', which
\* stats['Split'] = label adds last
DictKeys(row) ==
    (IF row.PA = 0 THEN empty_stats_keys ELSE stats_keys) \o <<"Split">>

\* result_df.columns of result_df = pd.DataFrame(results)
RECURSIVE DataFrameColumns(_)
DataFrameColumns(results) ==
    IF results = <<>> THEN <<>>
    ELSE LET n == Len(results)
             seen == DataFrameColumns(SubSeq(results, 1, n - 1))
         IN  seen \o SelectSeq(DictKeys(results[n]),
                               LAMBDA k : \A j \in DOMAIN seen : seen[j] # k)

\* the columns left where pd.DataFrame put them
ColumnsAsBuilt(columns) == columns

\* cols = ['Split'] + [col for col in result_df.columns if col != 'Split']
SplitFirst(columns) ==
    <<"Split">> \o SelectSeq(columns, LAMBDA col : col # "Split")

\* the columns of the table a classifier returns; pd.DataFrame() has none
Columns(table) ==
    IF table = <<>> THEN <<>> ELSE SplitFirst(DataFrameColumns(table))

\* every table in the result of the latest call: the table of a classifier,
\* the values of the dict of get_all_splits
TablesOut ==
    IF out.raised THEN {}
    ELSE IF out.fn \in Classifiers THEN {out.val}
    ELSE IF out.fn = "get_all_splits" THEN {out.val[k] : k \in DOMAIN out.val}
    ELSE {}

\* C11 as stated: every non-empty split table has Split first, then G, PA,
\* AB, R, H, 2B, 3B, HR, RBI, BB, SO, HBP, SH, SF, IBB, TB, GDP, BA, OBP,
\* SLG, OPS, BAbip in this order.
C11_ColumnsInDataModelOrder ==
    \A t \in TablesOut :
        t # <<>> =>
            Columns(t) =
                << "Split", "G", "PA", "AB", "R", "H", "2B", "3B", "HR",
                   "RBI", "BB", "SO", "HBP", "SH", "SF", "IBB", "TB", "GDP",
                   "BA", "OBP", "SLG", "OPS", "BAbip" >>

\* C11 (amended): every non-empty split table has Split first, then the
\* batting-line fields in the order calculate_stats writes them: G, PA, AB,
\* R, H, 2B, 3B, HR, RBI, BB, SO, BA, OBP, SLG, OPS, TB, GDP, HBP, SH, SF,
\* IBB, BAbip; and each row has exactly these fields.
C11_ColumnsInCodeOrder ==
    \A t \in TablesOut :
        t # <<>> =>
            /\ Columns(t) =
                << "Split", "G", "PA", "AB", "R", "H", "2B", "3B", "HR",
                   "RBI", "BB", "SO", "BA", "OBP", "SLG", "OPS", "TB", "GDP",
                   "HBP", "SH", "SF", "IBB", "BAbip" >>
            /\ \A i \in DOMAIN t :
                  DOMAIN t[i] = {Columns(t)[j] : j \in DOMAIN Columns(t)}

\* a table that mixes a line of _empty_stats with a computed one
C11_Witness ==
    /\ out.fn = "get_count_splits"
    /\ Len(out.val) >= 4
    /\ Columns(out.val)[1] = "Split"
    /\ Columns(out.val)[13] = "BA"
    /\ \E i \in DOMAIN out.val : out.val[i].PA >= 2

(***************************************************************************)
(* Table runs: every classifier on tables whose plate appearances vary in  *)
(* park, inning and date.                                                  *)
(***************************************************************************)
MaxTableRows == 2   \* rows of the pitch table in the table runs

TableSource ==
    [BaseSource EXCEPT !.events = {NaN, "single"},
                       !.home_team = {"NYY", "BOS"},
                       !.inning = {10, 2},
                       !.game_date = {20240405, 20240310, 20241101}]

LoadTable == AddPitch(TableSource, MaxTableRows)
TableClutch == Call("get_clutch_splits", FALSE)
TableCount == Call("get_count_splits", FALSE)
TableFirstPitch == Call("get_first_pitch_splits", FALSE)
TableBallpark == Call("get_ballpark_splits", FALSE)
TableInning == Call("get_inning_splits", FALSE)
TablePlatoon == Call("get_platoon_splits", FALSE)
TableHomeAway == Call("get_home_away_splits", FALSE)
TableMonth == Call("get_month_splits", FALSE)

NextTable ==
    \/ LoadTable
    \/ TableClutch
    \/ TableCount
    \/ TableFirstPitch
    \/ TableBallpark
    \/ TableInning
    \/ TablePlatoon
    \/ TableHomeAway
    \/ TableMonth

SpecTable == Init /\ [][NextTable]_vars

\* the Split column of a table
Labels(table) == [i \in DOMAIN table |-> table[i].Split]

\* C12: in every split table returned by any classifier no two rows carry
\* the same Split label.
C12_LabelsUnique ==
    \A t \in TablesOut :
        \A i, j \in DOMAIN t : t[i].Split = t[j].Split => i = j

\* a month table of two rows, from an input that lists April first
C12_Witness ==
    /\ out.fn = "get_month_splits"
    /\ Len(df.rows) = 2
    /\ df.rows[1].game_date = 20240405
    /\ Labels(out.val) = <<"March", "April">>

\* the table with its rows in another order
Reordered(d, p) == Frame(d.cols, [i \in DOMAIN d.rows |-> d.rows[p[i]]])

\* whether the labels appear in the order of the list (some may be absent)
InOrderOf(labels, list) ==
    LET pos(l) == CHOOSE k \in DOMAIN list : list[k] = l
    IN  /\ \A i \in DOMAIN labels : \E k \in DOMAIN list : list[k] = labels[i]
        /\ \A i, j \in DOMAIN labels : i < j => pos(labels[i]) < pos(labels[j])

\* whether the labels are the names of an ascending run of the numbers
AscendingBy(labels, name(_), numbers) ==
    LET num(l) == CHOOSE n \in numbers : name(n) = l
    IN  /\ \A i \in DOMAIN labels : \E n \in numbers : name(n) = labels[i]
        /\ \A i, j \in DOMAIN labels : i < j => num(labels[i]) < num(labels[j])

\* C13: the row order of a split table does not depend on the order of the
\* input rows: ballpark rows are in ascending alphabetical order of park
\* code, inning rows in ascending inning order, month rows in ascending
\* month order (named March..October, any other month "Month N"), and every
\* other table lists its buckets in the order the bucket list defines them.
C13_RowOrder ==
    (out.fn \in Classifiers /\ ~out.raised) =>
        LET labels == Labels(out.val)
            monthName(n) ==
                CASE n = 3 -> "March" [] n = 4 -> "April" [] n = 5 -> "May"
                  [] n = 6 -> "June" [] n = 7 -> "July" [] n = 8 -> "August"
                  [] n = 9 -> "September" [] n = 10 -> "October"
                  [] n = 1 -> "Month 1" [] n = 2 -> "Month 2"
                  [] n = 11 -> "Month 11" [] n = 12 -> "Month 12"
            inningName(n) ==
                CASE n = 2 -> "Inning 2" [] n = 10 -> "Inning 10"
                  [] OTHER -> "Inning"
        IN  /\ \A p \in Permutations(DOMAIN df.rows) :
                  Labels(Apply(out.fn, Reordered(df, p))) = labels
            /\ CASE out.fn = "get_ballpark_splits" ->
                      InOrderOf(labels, <<"BOS", "NYY", "SEA">>)
                 [] out.fn = "get_inning_splits" ->
                      AscendingBy(labels, inningName, {2, 10})
                 [] out.fn = "get_month_splits" ->
                      AscendingBy(labels, monthName, 1..12)
                 [] out.fn = "get_clutch_splits" ->
                      InOrderOf(labels,
                          << "2 Outs, RISP", "Late & Close", "Tie Game",
                             "Within 1R", "Within 2R", "Within 3R",
                             "Within 4R", "Margin >4R", "Ahead", "Behind" >>)
                 [] out.fn = "get_count_splits" ->
                      InOrderOf(labels,
                          << "0-0 Count", "0-1 Count", "0-2 Count",
                             "1-0 Count", "1-1 Count", "1-2 Count",
                             "2-0 Count", "2-1 Count", "2-2 Count",
                             "3-0 Count", "3-1 Count", "3-2 Count",
                             "Full Count", "After 1-0", "After 2-0",
                             "After 3-0", "After 0-1", "After 1-1",
                             "After 2-1", "After 3-1", "After 0-2",
                             "After 1-2", "After 2-2", "Zero Balls",
                             "Zero Strikes", "Three Balls", "Two Strikes",
                             "Batter Ahead", "Even Count", "Pitcher Ahead" >>)
                 [] out.fn = "get_first_pitch_splits" ->
                      InOrderOf(labels, <<"Swung 1st Pitch", "Took 1st Pitch">>)
                 [] out.fn = "get_platoon_splits" ->
                      InOrderOf(labels, <<"vs LHP", "vs RHP">>)
                 [] out.fn = "get_home_away_splits" ->
                      InOrderOf(labels, <<"Home", "Away">>)

\* the input lists inning 10 before inning 2 and the table inning 2 first
C13_Witness ==
    /\ out.fn = "get_inning_splits"
    /\ Len(df.rows) >= 2
    /\ df.rows[1].inning = 10 /\ df.rows[2].inning = 2
    /\ Labels(out.val) = <<"Inning 2", "Inning 10">>

\* C14: no classifier emits a zero row: every row of every split table has
\* PA >= 1, also for a bucket whose filter matches pitches but no outcome
\* row (such a bucket is absent from the table).
C14_NoZeroRow ==
    \A t \in TablesOut : \A i \in DOMAIN t : t[i].PA >= 1

\* the (game_pk, at_bat_number) pairs that occur in the rows
PairsIn(rows) ==
    {pair \in {rows[i].game_pk : i \in DOMAIN rows}
                \X {rows[i].at_bat_number : i \in DOMAIN rows} :
        \E i \in DOMAIN rows :
            rows[i].game_pk = pair[1] /\ rows[i].at_bat_number = pair[2]}

\* C15 as stated: PA of calculate_stats is the number of distinct
\* (game_pk, at_bat_number) groups of the input, groups without an outcome
\* row included.
C15_PaIsGroupCount ==
    StatsDone => out.val.PA = Cardinality(PairsIn(df.rows))

\* C15 (amended): when the input has at least one outcome row, PA is the
\* number of distinct (game_pk, at_bat_number) groups of the input, groups
\* without an outcome row included; when it has none, PA is 0.
C15_PaIsGroupCountGivenOutcomes ==
    StatsDone =>
        out.val.PA = IF \E i \in DOMAIN df.rows : df.rows[i].events # NaN
                     THEN Cardinality(PairsIn(df.rows))
                     ELSE 0

\* three plate appearances over two games, one of them without its outcome
C15_Witness ==
    /\ StatsDone
    /\ out.val.PA = 3
    /\ Cardinality({df.rows[i].game_pk : i \in DOMAIN df.rows}) = 2
    /\ Len(OutcomeRows(df.rows)) = 2

\* C16: a plate appearance ending in a walk (walk or intent_walk), a
\* hit_by_pitch or a sacrifice (sac_bunt, sac_bunt_double_play, sac_fly,
\* sac_fly_double_play) never increases AB: AB is at most the number of
\* plate appearances of the input that do not end in one of these.
C16_NoAtBatForWalkHbpSacrifice ==
    StatsDone =>
        out.val.AB + Cardinality(
            {i \in DOMAIN df.rows :
                df.rows[i].events \in
                    { "walk", "intent_walk", "hit_by_pitch", "sac_bunt",
                      "sac_bunt_double_play", "sac_fly",
                      "sac_fly_double_play" }})
            <= Cardinality(PairsIn(df.rows))

\* the predicate the clutch bucket of the k-th place is stated with; a
\* predicate on a column the table lacks is satisfied by no row
ClutchPredicate(k, r, cols) ==
    LET has(c) == c \in cols
        diff == r.bat_score_diff
        scored == has("bat_score_diff") /\ diff # NA
    IN  CASE k = 1 -> /\ has("outs_when_up") /\ r.outs_when_up = 2
                      /\ \/ has("on_2b") /\ r.on_2b # NA
                         \/ has("on_3b") /\ r.on_3b # NA
          [] k = 2 -> has("inning") /\ r.inning >= 7 /\ scored
                      /\ diff >= -1 /\ diff <= 1
          [] k = 3 -> scored /\ diff = 0
          [] k \in 4..7 -> scored /\ diff >= -(k - 3) /\ diff <= k - 3
          [] k = 8 -> scored /\ (diff > 4 \/ diff < -4)
          [] k = 9 -> scored /\ diff > 0
          [] k = 10 -> scored /\ diff < 0

\* whether the table has, for each bucket of the list, a row exactly when
\* some input row satisfies the bucket's predicate, that row being
\* calculate_stats over exactly the rows that satisfy it
ClutchBucketsAre(table, d, names) ==
    \A k \in DOMAIN names :
        LET rows == SelectSeq(d.rows, LAMBDA r : ClutchPredicate(k, r, d.cols))
            found == {i \in DOMAIN table : table[i].Split = names[k]}
        IN  IF rows = <<>>
            THEN found = {}
            ELSE /\ found # {}
                 /\ \A i \in found :
                       table[i] = [Split |-> names[k]]
                                      @@ calculate_stats(Frame(d.cols, rows))

\* C17: get_clutch_splits emits a bucket exactly when some input row
\* satisfies its predicate, with calculate_stats over exactly those rows:
\* "2 Outs+RISP", "Late & Close", "Tie Game", "Within NR" (N = 1..4),
\* "Margin >4R", "Ahead", "Behind"; when bat_score_diff is absent every
\* score-dependent bucket is skipped.
C17_ClutchBuckets ==
    out.fn = "get_clutch_splits" =>
        /\ ~out.raised
        /\ ClutchBucketsAre(out.val, df,
               << "2 Outs+RISP", "Late & Close", "Tie Game", "Within 1R",
                  "Within 2R", "Within 3R", "Within 4R", "Margin >4R",
                  "Ahead", "Behind" >>)

\* what the code does keep of C17: whenever get_clutch_splits returns, its
\* buckets are those of C17 with the first one labelled "2 Outs, RISP"
C17_ClutchBucketsWhenReturned ==
    (out.fn = "get_clutch_splits" /\ ~out.raised) =>
        ClutchBucketsAre(out.val, df,
            << "2 Outs, RISP", "Late & Close", "Tie Game", "Within 1R",
               "Within 2R", "Within 3R", "Within 4R", "Margin >4R",
               "Ahead", "Behind" >>)

\* the ways the code departs from C17: the call raises on a table that has
\* rows for "Tie Game", and the first bucket carries another label
C17_RaisesWithTieGameRows ==
    /\ out.fn = "get_clutch_splits"
    /\ out.raised
    /\ "bat_score_diff" \in df.cols
    /\ \E i \in DOMAIN df.rows : df.rows[i].bat_score_diff = 0

C17_OtherLabel ==
    /\ out.fn = "get_clutch_splits"
    /\ ~out.raised
    /\ \E i \in DOMAIN out.val :
          out.val[i].Split = "2 Outs, RISP" /\ out.val[i].PA = 1

(***************************************************************************)
(* Count runs: the count of balls and strikes varies from pitch to pitch;  *)
(* a ball count of 4 lies outside the grid.  Reached-count runs: the same  *)
(* over several games, whose plate appearances share their numbers.        *)
(***************************************************************************)
MaxCountRows == 3   \* rows of the pitch table in the count runs

CountSource ==
    [BaseSource EXCEPT !.events = {NaN, "single"},
                       !.balls = {0, 3, 4},
                       !.strikes = {0, 2}]

ReachedSource ==
    [BaseSource EXCEPT !.events = {NaN, "single"},
                       !.newgame = BOOLEAN,
                       !.balls = {0, 3},
                       !.strikes = {0, 2}]

LoadCount == AddPitch(CountSource, MaxCountRows)
CallCount == Call("get_count_splits", FALSE)

NextCount ==
    \/ LoadCount
    \/ CallCount

SpecCount == Init /\ [][NextCount]_vars

LoadReached == AddPitch(ReachedSource, MaxCountRows)

NextReached ==
    \/ LoadReached
    \/ CallCount

SpecReached == Init /\ [][NextReached]_vars

\* the label of the final-count row of a pair of the grid
FinalCountName(b, s) ==
    CASE b = 0 /\ s = 0 -> "0-0 Count" [] b = 0 /\ s = 1 -> "0-1 Count"
      [] b = 0 /\ s = 2 -> "0-2 Count" [] b = 1 /\ s = 0 -> "1-0 Count"
      [] b = 1 /\ s = 1 -> "1-1 Count" [] b = 1 /\ s = 2 -> "1-2 Count"
      [] b = 2 /\ s = 0 -> "2-0 Count" [] b = 2 /\ s = 1 -> "2-1 Count"
      [] b = 2 /\ s = 2 -> "2-2 Count" [] b = 3 /\ s = 0 -> "3-0 Count"
      [] b = 3 /\ s = 1 -> "3-1 Count" [] b = 3 /\ s = 2 -> "3-2 Count"

\* C18: the final-count rows "{balls}-{strikes} Count" of get_count_splits
\* are emitted for exactly the pairs of {0,1,2,3} x {0,1,2} that are the
\* count of at least one outcome row; their PA sum to the number of
\* outcome rows whose count lies in the grid; a "Full Count" row is emitted
\* if and only if a "3-2 Count" row is, with every stat field equal to it.
C18_FinalCountRows ==
    out.fn = "get_count_splits" =>
        LET t == out.val
            at(b, s) == {i \in DOMAIN df.rows :
                            /\ df.rows[i].events # NaN
                            /\ df.rows[i].balls = b
                            /\ df.rows[i].strikes = s}
            final == SelectSeq(t, LAMBDA row :
                        \E b \in 0..3, s \in 0..2 :
                            row.Split = FinalCountName(b, s))
            full == {i \in DOMAIN t : t[i].Split = "Full Count"}
            three_two == {i \in DOMAIN t : t[i].Split = "3-2 Count"}
        IN  /\ \A b \in 0..3, s \in 0..2 :
                  (\E i \in DOMAIN t : t[i].Split = FinalCountName(b, s))
                      <=> at(b, s) # {}
            /\ SumField(final, "PA") =
                  Cardinality(UNION {at(b, s) : b \in 0..3, s \in 0..2})
            /\ (full # {}) <=> (three_two # {})
            /\ \A i \in full, j \in three_two :
                  [t[i] EXCEPT !.Split = "3-2 Count"] = t[j]

\* outcomes at 0-0, at 3-2 and at four balls
C18_Witness ==
    /\ out.fn = "get_count_splits"
    /\ Len(df.rows) = 3
    /\ \A i \in DOMAIN df.rows : df.rows[i].events # NaN
    /\ \E i \in DOMAIN df.rows : df.rows[i].balls = 4
    /\ Labelled(out.val, "0-0 Count") # <<>>
    /\ Labelled(out.val, "Full Count") # <<>>
    /\ Labelled(out.val, "3-2 Count") # <<>>

\* the plate appearances that have an outcome row and some pitch, terminal
\* or not, that satisfies the predicate
ReachedPAs(rows, P(_)) ==
    {pair \in PairsIn(rows) :
        /\ \E i \in DOMAIN rows :
              /\ rows[i].game_pk = pair[1] /\ rows[i].at_bat_number = pair[2]
              /\ rows[i].events # NaN
        /\ \E i \in DOMAIN rows :
              /\ rows[i].game_pk = pair[1] /\ rows[i].at_bat_number = pair[2]
              /\ P(rows[i])}

\* whether the table has a row of that name exactly when the plate
\* appearances are some, with their number as PA and calculate_stats over
\* their outcome rows as stats
ReachedRowIs(table, name, d, pas) ==
    LET found == {i \in DOMAIN table : table[i].Split = name}
        outcomes == SelectSeq(d.rows, LAMBDA r :
                        r.events # NaN /\ <<r.game_pk, r.at_bat_number>> \in pas)
    IN  IF pas = {}
        THEN found = {}
        ELSE /\ found # {}
             /\ \A i \in found :
                   /\ table[i].PA = Cardinality(pas)
                   /\ table[i] = [Split |-> name]
                                    @@ calculate_stats(Frame(d.cols, outcomes))

\* C19: every reached-state bucket of get_count_splits ("After X-Y", "Zero
\* Balls", "Zero Strikes", "Three Balls", "Two Strikes", "Batter Ahead",
\* "Even Count", "Pitcher Ahead") has as PA the number of plate appearances
\* with an outcome row and at least one pitch, terminal or not, satisfying
\* the bucket's predicate, and as stats calculate_stats over exactly those
\* plate appearances' outcome rows; "After 2-0" holds a plate appearance
\* iff some pitch of it had balls >= 2 and strikes = 0.
C19_ReachedBuckets ==
    out.fn = "get_count_splits" =>
        /\ \A k \in DOMAIN after_counts :
              ReachedRowIs(out.val, after_counts[k], df,
                  ReachedPAs(df.rows,
                             LAMBDA r : ReachedMask(after_counts[k], r)))
        /\ \A k \in DOMAIN aggregates :
              ReachedRowIs(out.val, aggregates[k], df,
                  ReachedPAs(df.rows,
                             LAMBDA r : ReachedMask(aggregates[k], r)))
        /\ ReachedRowIs(out.val, "After 2-0", df,
              ReachedPAs(df.rows, LAMBDA r : r.balls >= 2 /\ r.strikes = 0))
        /\ ReachedRowIs(out.val, "Two Strikes", df,
              ReachedPAs(df.rows, LAMBDA r : r.strikes = 2))
        /\ ReachedRowIs(out.val, "Batter Ahead", df,
              ReachedPAs(df.rows, LAMBDA r : r.balls > r.strikes))

\* a plate appearance that was at 3-0 on a pitch before its outcome at 3-2,
\* beside one of the same number in the next game that has no outcome row
C19_Witness ==
    /\ out.fn = "get_count_splits"
    /\ Len(df.rows) = 3
    /\ df.rows[3].game_pk = 2
    /\ df.rows[3].at_bat_number = df.rows[1].at_bat_number
    /\ df.rows[3].balls = 3 /\ df.rows[3].strikes = 0
    /\ df.rows[1].events = NaN
    /\ df.rows[1].balls = 3 /\ df.rows[1].strikes = 0
    /\ df.rows[2].at_bat_number = df.rows[1].at_bat_number
    /\ df.rows[2].game_pk = df.rows[1].game_pk
    /\ df.rows[2].events # NaN
    /\ df.rows[2].balls = 3 /\ df.rows[2].strikes = 2
    /\ df.rows[3].events = NaN
    /\ Len(Labelled(out.val, "After 2-0")) = 1
    /\ Labelled(out.val, "After 2-0")[1].PA = 1

(***************************************************************************)
(* First-pitch runs: the pitch result varies from pitch to pitch, also to  *)
(* one that is neither a swing nor a take, and a plate appearance may have *)
(* lost its first pitch to the filter in front of the core.                *)
(***************************************************************************)
MaxFirstPitchRows == 3  \* rows of the pitch table in the first-pitch runs

FirstPitchSource ==
    [BaseSource EXCEPT !.events = {NaN, "single"},
                       !.newgame = BOOLEAN,
                       !.first = {1, 2},
                       !.description = {"ball", "foul", "automatic_ball"}]

LoadFirstPitch == AddPitch(FirstPitchSource, MaxFirstPitchRows)
FirstPitchCall == Call("get_first_pitch_splits", FALSE)

NextFirstPitch ==
    \/ LoadFirstPitch
    \/ FirstPitchCall

SpecFirstPitch == Init /\ [][NextFirstPitch]_vars

\* the plate appearances whose pitch numbered 1 has its description in S
FirstPitchIn(rows, S) ==
    {pair \in PairsIn(rows) :
        \E i \in DOMAIN rows :
            /\ rows[i].game_pk = pair[1] /\ rows[i].at_bat_number = pair[2]
            /\ rows[i].pitch_number = 1
            /\ rows[i].description \in S}

\* whether the table has the row exactly when there are such plate
\* appearances, as calculate_stats over all their pitches
FirstPitchRowIs(table, name, d, pas) ==
    LET found == {i \in DOMAIN table : table[i].Split = name}
        pitches == SelectSeq(d.rows, LAMBDA r :
                        <<r.game_pk, r.at_bat_number>> \in pas)
    IN  IF pas = {}
        THEN found = {}
        ELSE /\ Cardinality(found) = 1
             /\ \A i \in found :
                   table[i] = [Split |-> name]
                                  @@ calculate_stats(Frame(d.cols, pitches))

\* C20: get_first_pitch_splits partitions plate appearances by the
\* description of their pitch numbered 1: none is in both "Swung 1st Pitch"
\* and "Took 1st Pitch"; one whose first pitch is in neither description
\* set, or that has no pitch numbered 1, is in neither; each bucket is
\* calculate_stats over all pitches of its plate appearances; and
\* PA(Swung) + PA(Took) <= PA of the whole input.
C20_FirstPitchPartition ==
    out.fn = "get_first_pitch_splits" =>
        LET swung == FirstPitchIn(df.rows, swung_descriptions)
            took == FirstPitchIn(df.rows, took_descriptions)
        IN  /\ swung \cap took = {}
            /\ FirstPitchRowIs(out.val, "Swung 1st Pitch", df, swung)
            /\ FirstPitchRowIs(out.val, "Took 1st Pitch", df, took)
            /\ \A i \in DOMAIN out.val :
                  out.val[i].Split \in {"Swung 1st Pitch", "Took 1st Pitch"}
            /\ SumField(out.val, "PA") <= calculate_stats(df).PA

\* a plate appearance taken, then swung at, beside one without its first
\* pitch whose second was swung at: one bucket, PA 1 of 2
C20_Witness ==
    /\ out.fn = "get_first_pitch_splits"
    /\ Len(df.rows) = 3
    /\ df.rows[1].pitch_number = 1 /\ df.rows[1].description = "ball"
    /\ df.rows[2].pitch_number = 2 /\ df.rows[2].description = "foul"
    /\ df.rows[2].events = "single"
    /\ df.rows[3].pitch_number = 2 /\ df.rows[3].description = "foul"
    /\ df.rows[3].events = "single"
    /\ Labels(out.val) = <<"Took 1st Pitch">>
    /\ out.val[1].PA = 1
    /\ calculate_stats(df).PA = 2

(***************************************************************************)
(* Double-play runs: the outcomes include every double-play event.         *)
(***************************************************************************)
DoublePlayEvents ==
    { NaN, "single", "grounded_into_double_play", "strikeout_double_play",
      "double_play", "sac_fly_double_play", "sac_bunt_double_play" }

DoublePlaySource == [BaseSource EXCEPT !.events = DoublePlayEvents]

LoadDoublePlay == AddPitch(DoublePlaySource, MaxSplitRows)

NextDoublePlay ==
    \/ LoadDoublePlay
    \/ CallCalculateStats

SpecDoublePlay == Init /\ [][NextDoublePlay]_vars

\* C21: GDP is the number of outcome rows whose event contains
\* "double_play" minus the number of sac_bunt_double_play and
\* sac_fly_double_play rows, and counts ground-ball double plays only: a
\* strikeout_double_play, or any event other than a ground-ball double
\* play, never increases GDP.
C21_GdpGroundBallOnly ==
    StatsDone =>
        LET rows(S) == {i \in DOMAIN df.rows : df.rows[i].events \in S}
        IN  /\ out.val.GDP =
                  Cardinality(rows({ "grounded_into_double_play",
                                     "strikeout_double_play", "double_play",
                                     "sac_fly_double_play",
                                     "sac_bunt_double_play" }))
                  - Cardinality(rows({ "sac_fly_double_play",
                                       "sac_bunt_double_play" }))
            /\ out.val.GDP <=
                  Cardinality(rows({"grounded_into_double_play"}))

\* what the code does keep of C21: the count by substring, less the
\* sacrifice double plays
C21_GdpBySubstring ==
    StatsDone =>
        out.val.GDP =
            Cardinality({i \in DOMAIN df.rows :
                df.rows[i].events \in { "grounded_into_double_play",
                                        "strikeout_double_play",
                                        "double_play" }})

\* ---------------------------------------------------------------------
\* RBI from the score change of the outcome rows
\* ---------------------------------------------------------------------
MaxRbiRows == 2   \* rows of the pitch table in the RBI runs

RbiSource ==
    [BaseSource EXCEPT !.events = {NaN, "single", "walk", "field_error"},
                       !.post_bat_score = {NA, 2},
                       !.bat_score = {0, 3},
                       !.on_1b = {NA, 7},
                       !.on_2b = {7},
                       !.on_3b = {NA, 7}]

LoadRbi == AddPitch(RbiSource, MaxRbiRows)

NextRbi ==
    \/ LoadRbi
    \/ CallCalculateStats

SpecRbi == Init /\ [][NextRbi]_vars

\* C22: with both score columns present RBI is the sum, over the outcome
\* rows, of the positive post_bat_score - bat_score of the rows whose event
\* is RBI-eligible or is a walk / intentional walk / hit by pitch with all
\* of on_1b, on_2b, on_3b non-null; every other row and every row with a
\* null score adds 0, and RBI is never negative.
C22_RbiFromScoreChange ==
    StatsDone =>
        LET Eligible(r) ==
                \/ r.events \in { "single", "double", "triple", "home_run",
                                   "sac_fly", "sac_fly_double_play",
                                   "field_out", "grounded_into_double_play" }
                \/ /\ r.events \in {"walk", "intent_walk", "hit_by_pitch"}
                   /\ r.on_1b # NA /\ r.on_2b # NA /\ r.on_3b # NA
            Change(r) ==
                IF r.post_bat_score = NA \/ r.bat_score = NA THEN 0
                ELSE r.post_bat_score - r.bat_score
            Credit(r) ==
                IF r.events # NaN /\ Eligible(r) /\ Change(r) > 0
                THEN Change(r) ELSE 0
        IN  /\ {"post_bat_score", "bat_score"} \subseteq df.cols
            /\ out.val.RBI = SumOver(df.rows, Credit)
            /\ out.val.RBI >= 0

\* a walk without the bases loaded, a walk with them loaded, and a hit
\* whose score change is negative have all been aggregated
C22_Witness ==
    /\ StatsDone
    /\ \E i, j \in DOMAIN df.rows :
          /\ df.rows[i].events = "walk" /\ df.rows[i].on_1b = NA
          /\ df.rows[i].post_bat_score = 2 /\ df.rows[i].bat_score = 0
          /\ df.rows[j].events = "walk" /\ df.rows[j].on_1b # NA
          /\ df.rows[j].on_3b # NA
          /\ df.rows[j].post_bat_score = 2 /\ df.rows[j].bat_score = 0
    /\ out.val.RBI = 2

\* a hit with a falling score has been aggregated to no RBI
C22_NegativeChangeSeen ==
    /\ StatsDone
    /\ \E i \in DOMAIN df.rows :
          /\ df.rows[i].events = "single"
          /\ df.rows[i].post_bat_score = 2 /\ df.rows[i].bat_score = 3
    /\ out.val.RBI = 0

\* ---------------------------------------------------------------------
\* Zone batting average on the 3 x 3 grid
\* ---------------------------------------------------------------------
MaxZoneRows == 2   \* rows of the pitch table in the zone runs

ZoneSource ==
    [BaseSource EXCEPT !.events = {NaN, "single", "field_out", "walk"},
                       !.plate_x = {NA, -100, -50, -33, 33},
                       !.plate_z = {150, 200, 230, 450}]

LoadZone == AddPitch(ZoneSource, MaxZoneRows)

CallZone == Call("calculate_zone_batting_average", FALSE)

NextZone ==
    \/ LoadZone
    \/ CallZone

SpecZone == Init /\ [][NextZone]_vars

ZoneDone == out.fn = "calculate_zone_batting_average"

\* the zone table is exactly the populated cells of the 3 x 3 grid, when a
\* bin from lo to hi is taken closed on the right (right = TRUE) or closed
\* on the left with the last bin closed on both sides (right = FALSE)
ZoneTableIs(table, d, right) ==
    LET In(x, lo, hi, last) ==
            IF right THEN lo < x /\ x <= hi
            ELSE lo <= x /\ (x < hi \/ (last /\ x = hi))
        InX(r, name) ==
            CASE name = "Left" -> In(r.plate_x, -100, -33, FALSE)
              [] name = "Middle" -> In(r.plate_x, -33, 33, FALSE)
              [] name = "Right" -> In(r.plate_x, 33, 100, TRUE)
        InZ(r, name) ==
            CASE name = "Low" -> In(r.plate_z, 150, 230, FALSE)
              [] name = "Mid" -> In(r.plate_z, 230, 310, FALSE)
              [] name = "High" -> In(r.plate_z, 310, 390, TRUE)
        Kept == { i \in DOMAIN d.rows :
                    /\ d.rows[i].plate_x # NA /\ d.rows[i].plate_z # NA
                    /\ d.rows[i].events \in
                         { "single", "double", "triple", "home_run",
                           "field_out", "force_out",
                           "grounded_into_double_play", "strikeout",
                           "strikeout_double_play", "fielders_choice_out",
                           "double_play", "triple_play", "field_error",
                           "fielders_choice" } }
        Cell(cx, cz) == { i \in Kept : InX(d.rows[i], cx) /\ InZ(d.rows[i], cz) }
        Hits(cx, cz) ==
            { i \in Cell(cx, cz) :
                d.rows[i].events \in {"single", "double", "triple", "home_run"} }
        RowsOf(cx, cz) ==
            { k \in DOMAIN table :
                table[k].plate_x = cx /\ table[k].plate_z = cz }
    IN  \A cx \in {"Left", "Middle", "Right"}, cz \in {"Low", "Mid", "High"} :
            IF Cell(cx, cz) = {} THEN RowsOf(cx, cz) = {}
            ELSE /\ Cardinality(RowsOf(cx, cz)) = 1
                 /\ \A k \in RowsOf(cx, cz) :
                      /\ table[k].abs = Cardinality(Cell(cx, cz))
                      /\ table[k].hits = Cardinality(Hits(cx, cz))
                      /\ table[k].hits <= table[k].abs
                      /\ table[k].batting_avg.n * table[k].abs
                           = table[k].hits * table[k].batting_avg.d

C23_Scenario ==
    /\ ZoneDone
    /\ Len(df.rows) = 1
    /\ df.rows[1].plate_x = -50 /\ df.rows[1].plate_z = 200
    /\ df.rows[1].events = "single"
    /\ out.val = << [ plate_x |-> "Left", plate_z |-> "Low", hits |-> 1,
                      abs |-> 1, batting_avg |-> [n |-> 1, d |-> 1] ] >>

\* ---------------------------------------------------------------------
\* Plate discipline: chase rate and the count situations
\* ---------------------------------------------------------------------
MaxChaseRows == 2        \* rows of the pitch table in the chase runs
MaxSituationRows == 2    \* rows of the pitch table in the count-label runs

ChaseSource ==
    [BaseSource EXCEPT !.events = {NaN, "single"},
                       !.description = {"ball", "foul"},
                       !.zone = {NA, 5, 11},
                       !.balls = {0, 2},
                       !.strikes = {0, 2}]

SituationSource ==
    [BaseSource EXCEPT !.balls = {0, 1, 2, 3},
                       !.strikes = {0, 1, 2}]

LoadChase == AddPitch(ChaseSource, MaxChaseRows)

LoadSituation == AddPitch(SituationSource, MaxSituationRows)

CallChase == Call("chase_rate", FALSE)

NextChase ==
    \/ LoadChase
    \/ CallChase

NextSituation ==
    \/ LoadSituation
    \/ CallChase

SpecChase == Init /\ [][NextChase]_vars

SpecSituation == Init /\ [][NextSituation]_vars

ChaseDone == out.fn = "chase_rate"

\* C24: every row is exactly one of in-zone (zone <= 9) or out-of-zone, so
\* the in-zone and out-of-zone pitches add up to the rows; chase rate is
\* 100 x swings out of the zone / pitches out of the zone and zone-swing rate
\* 100 x swings in the zone / pitches in the zone, each 0 when its
\* denominator is 0 and within 0..100; and the out-of-zone totals of the
\* three reported situations add up to the overall out-of-zone total.
C24_ChasePartition ==
    ChaseDone =>
        LET v == out.val
            Within(r) == 0 <= r.n /\ r.n <= 100 * r.d
            Is(r, num, den) ==
                IF den = 0 THEN r.n = 0 ELSE r.n * den = 100 * num * r.d
        IN  /\ \A i \in DOMAIN df.rows : v.in_zone[i] \in {"True", "False"}
            /\ v.total_pitches_in + v.total_pitches_out = Len(df.rows)
            /\ Is(v.chase_rate, v.swings_out, v.total_pitches_out)
            /\ Is(v.zone_swing_rate, v.swings_in, v.total_pitches_in)
            /\ Within(v.chase_rate) /\ Within(v.zone_swing_rate)
            /\ SumSeq([k \in DOMAIN v.chase_data |-> v.chase_data[k].total_out])
                 = v.total_pitches_out

\* what chase_rate keeps of it: the rates and their range, with the rows of
\* a null zone on neither side and the pitches at 2-0 and 3-0 in no
\* reported situation
C24_ChaseRates ==
    ChaseDone =>
        LET v == out.val
            Within(r) == 0 <= r.n /\ r.n <= 100 * r.d
            Is(r, num, den) ==
                IF den = 0 THEN r.n = 0 ELSE r.n * den = 100 * num * r.d
            Nulls == Cardinality({i \in DOMAIN df.rows : df.rows[i].zone = NA})
            Unreported ==
                Cardinality({ i \in DOMAIN df.rows :
                                /\ df.rows[i].zone # NA /\ df.rows[i].zone > 9
                                /\ df.rows[i].balls >= 2
                                /\ df.rows[i].strikes = 0 })
        IN  /\ v.total_pitches_in + v.total_pitches_out + Nulls = Len(df.rows)
            /\ Is(v.chase_rate, v.swings_out, v.total_pitches_out)
            /\ Is(v.zone_swing_rate, v.swings_in, v.total_pitches_in)
            /\ Within(v.chase_rate) /\ Within(v.zone_swing_rate)
            /\ SumSeq([k \in DOMAIN v.chase_data |-> v.chase_data[k].total_out])
                 + Unreported = v.total_pitches_out

\* C25: categorize_count gives each (balls, strikes) pair one label by fixed
\* priority: strikes = 2 is "2-strike (pressure)"; otherwise balls >= 2 with
\* no strike is the 2-0 / 3-0 hitter-ahead label; otherwise strikes >= balls
\* is "Pitcher ahead"; otherwise "Hitter ahead".  "Full count situations"
\* is never returned and balls > strikes is never "Pitcher ahead".
C25_CountSituationPriority ==
    ChaseDone =>
        \A i \in DOMAIN df.rows :
            LET b == df.rows[i].balls
                s == df.rows[i].strikes
                label == out.val.count_situation[i]
            IN  /\ (s = 2) => label = "2-strike (pressure)"
                /\ (s # 2 /\ b >= 2 /\ s = 0)
                      => label = "Hitter ahead (2-0, 3-0)"
                /\ (s # 2 /\ ~(b >= 2 /\ s = 0) /\ s >= b)
                      => label = "Pitcher ahead"
                /\ (s # 2 /\ ~(b >= 2 /\ s = 0) /\ s < b)
                      => label = "Hitter ahead"
                /\ label # "Full count situations"
                /\ (b > s) => label # "Pitcher ahead"

\* a full count and a 3-0 count have been labelled
C25_Witness ==
    /\ ChaseDone
    /\ Len(df.rows) = 2
    /\ df.rows[1].balls = 3 /\ df.rows[1].strikes = 2
    /\ df.rows[2].balls = 3 /\ df.rows[2].strikes = 0
    /\ out.val.count_situation
         = <<"2-strike (pressure)", "Hitter ahead (2-0, 3-0)">>

\* ---------------------------------------------------------------------
\* Pitcher vs batter matchup
\* ---------------------------------------------------------------------
MaxMatchupRows == 3   \* rows of the pitch table in the matchup runs

\* events.str.contains('walk') and events.str.contains('strikeout')
ContainsWalk == {"walk", "intent_walk"}
ContainsStrikeout == {"strikeout", "strikeout_double_play"}

\* utils.count_at_bats is imported by matchup.py and defined nowhere in the
\* repository; spec section 4.4 has the resolver run the Aggregator for its
\* summary, so the at-bats are the Aggregator's AB
count_at_bats(d) == calculate_stats(d).AB

\* the keys of groupby(['game_pk', 'at_bat_number']) in the order it
\* iterates them: ascending by game_pk, then by at_bat_number
RECURSIVE at_bat_groups(_)
at_bat_groups(keys) ==
    IF keys = {} THEN <<>>
    ELSE LET m == CHOOSE x \in keys :
                     \A y \in keys :
                        x[1] < y[1] \/ (x[1] = y[1] /\ x[2] <= y[2])
         IN  <<m>> \o at_bat_groups(keys \ {m})

\* the rows of one group left in the order of the input
at_bat_unsorted(at_bat_data) == at_bat_data

\* at_bat_data.sort_values('pitch_number'); the pitch numbers of one plate
\* appearance are distinct
at_bat_sorted(at_bat_data) ==
    LET numbers == sorted({at_bat_data[i].pitch_number : i \in DOMAIN at_bat_data})
    IN  [k \in DOMAIN numbers |->
            at_bat_data[CHOOSE i \in DOMAIN at_bat_data :
                            at_bat_data[i].pitch_number = numbers[k]]]

\* what pitcher_matchup shows for the selected pitcher: the summary metrics
\* (rates as printed by :.3f) and the at-bat history
pitcher_matchup(player_data, selected_pitcher_id) ==
    LET matchup_data ==
            Filter(player_data, LAMBDA r : r.pitcher = selected_pitcher_id)
        outcomes == SelectSeq(matchup_data.rows, LAMBDA r : notna(r.events))
        In(S) == Count(outcomes, LAMBDA r : r.events \in S)
        at_bats == count_at_bats(matchup_data)
        hits == In({"single", "double", "triple", "home_run"})
        singles == In({"single"})
        doubles == In({"double"})
        triples == In({"triple"})
        home_runs == In({"home_run"})
        walks == In(ContainsWalk)
        hbp == In({"hit_by_pitch"})
        sac_flies == In({"sac_fly", "sac_fly_double_play"})
        strikeouts == In(ContainsStrikeout)
        avg == Rate(hits, at_bats, at_bats > 0)
        obp == Rate(hits + walks + hbp, at_bats + walks + hbp + sac_flies,
                    (at_bats + walks + hbp + sac_flies) > 0)
        total_bases == singles + (2 * doubles) + (3 * triples) + (4 * home_runs)
        slg == Rate(total_bases, at_bats, at_bats > 0)
        ops == RateAdd(obp, slg)
        groups == at_bat_groups(GroupKeys(matchup_data.rows))
    IN  [ pitcher |-> selected_pitcher_id,
          total_pitches |-> Len(matchup_data.rows),
          hits |-> hits, at_bats |-> at_bats, home_runs |-> home_runs,
          walks |-> walks, strikeouts |-> strikeouts,
          avg |-> round3(avg), obp |-> round3(obp), slg |-> round3(slg),
          ops |-> round3(ops),
          total_at_bats |-> Len(groups),
          history |->
            [g \in DOMAIN groups |->
                LET at_bat_data ==
                        SelectSeq(matchup_data.rows,
                            LAMBDA r : <<r.game_pk, r.at_bat_number>> = groups[g])
                    ordered == at_bat_sorted(at_bat_data)
                IN  [ game_pk |-> groups[g][1],
                      at_bat_number |-> groups[g][2],
                      pitches |-> [k \in DOMAIN ordered |-> ordered[k].pitch_number],
                      outcome |-> ordered[Len(ordered)].events,
                      num_pitches |-> Len(ordered) ]] ]

MatchupSource ==
    [BaseSource EXCEPT !.events = {NaN, "single", "walk", "intent_walk"},
                       !.pitcher = {1, 2}]

LoadMatchup == AddPitch(MatchupSource, MaxMatchupRows)

\* the page hands the loaded rows, in whatever order they arrived, to
\* pitcher_matchup and the user selects one of the pitchers faced
CallMatchup ==
    /\ out = NoCall
    /\ \E p \in Permutations(DOMAIN df.rows) :
       \E id \in {df.rows[i].pitcher : i \in DOMAIN df.rows} :
          /\ df' = Reordered(df, p)
          /\ out' = Returned("pitcher_matchup", pitcher_matchup(df', id))
    /\ UNCHANGED session

NextMatchup ==
    \/ LoadMatchup
    \/ CallMatchup

SpecMatchup == Init /\ [][NextMatchup]_vars

MatchupDone == out.fn = "pitcher_matchup"

\* the rows of the selected pitcher, as a table
MatchupRows == Filter(df, LAMBDA r : r.pitcher = out.val.pitcher)

\* C26: the matchup summary (hits, at-bats, walks, strikeouts, AVG, OBP,
\* SLG, OPS) equals H, AB, BB, SO, BA, OBP, SLG, OPS of calculate_stats on
\* the batter's rows filtered to the selected pitcher.
C26_SummaryIsAggregator ==
    MatchupDone =>
        LET line == calculate_stats(MatchupRows)
            v == out.val
        IN  /\ v.hits = line.H /\ v.at_bats = line.AB
            /\ v.walks = line.BB /\ v.strikeouts = line.SO
            /\ v.avg = line.BA /\ v.obp = line.OBP
            /\ v.slg = line.SLG /\ v.ops = line.OPS

\* the fields of the summary that do follow the Aggregator
C26_HitsAndStrikeoutsAgree ==
    MatchupDone =>
        LET line == calculate_stats(MatchupRows)
        IN  /\ out.val.hits = line.H /\ out.val.strikeouts = line.SO
            /\ out.val.walks = line.BB + line.IBB

\* the history shows one entry per (game_pk, at_bat_number) of the selected
\* pitcher's rows, each with its pitches in ascending pitch_number and the
\* events value of its last pitch as outcome
HistoryIsOrdered ==
    LET v == out.val
        rows == MatchupRows.rows
        keys == {<<rows[i].game_pk, rows[i].at_bat_number>> : i \in DOMAIN rows}
        Of(h) == { i \in DOMAIN rows :
                     /\ rows[i].game_pk = h.game_pk
                     /\ rows[i].at_bat_number = h.at_bat_number }
    IN  /\ v.total_at_bats = Cardinality(keys)
        /\ {<<v.history[g].game_pk, v.history[g].at_bat_number>> :
                g \in DOMAIN v.history} = keys
        /\ Len(v.history) = Cardinality(keys)
        /\ \A g \in DOMAIN v.history :
             LET h == v.history[g]
             IN  /\ h.num_pitches = Cardinality(Of(h))
                 /\ Len(h.pitches) = h.num_pitches
                 /\ {h.pitches[k] : k \in DOMAIN h.pitches}
                      = {rows[i].pitch_number : i \in Of(h)}
                 /\ \A k \in 1 .. Len(h.pitches) - 1 :
                      h.pitches[k] < h.pitches[k + 1]
                 /\ \E i \in Of(h) :
                      /\ \A j \in Of(h) :
                            rows[j].pitch_number <= rows[i].pitch_number
                      /\ h.outcome = rows[i].events

\* C27 as stated: the at-bat history groups the selected pitcher's rows by
\* (game_pk, at_bat_number) so that the number of groups equals the PA of
\* calculate_stats on the same rows, orders each group by pitch_number
\* whatever the input order, and reports as outcome the events value of the
\* last-ordered row, which is the plate appearance's terminal non-null event.
C27_HistoryMirrorsAggregator ==
    MatchupDone =>
        /\ HistoryIsOrdered
        /\ out.val.total_at_bats = calculate_stats(MatchupRows).PA
        /\ \A g \in DOMAIN out.val.history : out.val.history[g].outcome # NaN

\* C27 amended: the groups are those of the Aggregator's groupby, so their
\* number equals the PA of calculate_stats on the same rows whenever those
\* rows hold an outcome row (PA is 0 otherwise); each group is ordered by
\* pitch_number whatever the input order; the outcome is the events value of
\* the last-ordered row, which is the terminal event when the group holds
\* its outcome row and null when it does not.
C27_HistoryMirrorsGrouping ==
    MatchupDone =>
        LET rows == MatchupRows.rows
            line == calculate_stats(MatchupRows)
            Ends(h) == \E i \in DOMAIN rows :
                          /\ rows[i].game_pk = h.game_pk
                          /\ rows[i].at_bat_number = h.at_bat_number
                          /\ rows[i].events # NaN
        IN  /\ HistoryIsOrdered
            /\ IF \E i \in DOMAIN rows : rows[i].events # NaN
               THEN out.val.total_at_bats = line.PA
               ELSE line.PA = 0
            /\ \A g \in DOMAIN out.val.history :
                  (out.val.history[g].outcome # NaN) <=> Ends(out.val.history[g])

\* a two-pitch plate appearance handed over last pitch first is shown in
\* pitch order with its single as outcome, next to a plate appearance the
\* selected pitcher did not finish
C27_Witness ==
    /\ MatchupDone
    /\ out.val.pitcher = 1
    /\ Len(df.rows) = 3
    /\ df.rows[1].pitch_number = 2 /\ df.rows[1].events = "single"
    /\ df.rows[2].pitch_number = 1 /\ df.rows[2].events = NaN
    /\ df.rows[1].at_bat_number = df.rows[2].at_bat_number
    /\ out.val.total_at_bats = 2
    /\ \E g, h \in DOMAIN out.val.history :
          /\ out.val.history[g].pitches = <<1, 2>>
          /\ out.val.history[g].outcome = "single"
          /\ out.val.history[h].outcome = NaN

\* ---------------------------------------------------------------------
\* The page: start page validation, load and reload
\* ---------------------------------------------------------------------
Players == {"Aaron Judge", "Juan Soto"}   \* names the search box resolves
MaxDate == 3                              \* days a date input can hold
Dates == 1 .. MaxDate

\* the validation of the start page: `raised` is the TypeError of
\* `start_date > end_date` when start_date is None
Validation(player_name, start_date, end_date) ==
    LET incomplete ==
            (player_name = NoPlayer /\ start_date = NoDate)
                \/ end_date = NoDate
        raised == ~incomplete /\ start_date = NoDate
        validation_errors ==
            IF incomplete
            THEN <<"Please select a player and both start and end dates">>
            ELSE IF ~raised /\ start_date > end_date
                 THEN <<"Start date must be before end date">>
                 ELSE <<>>
    IN  [ player_name |-> player_name, start_date |-> start_date,
          end_date |-> end_date, validation_errors |-> validation_errors,
          load_button_disabled |-> (raised \/ validation_errors # <<>>),
          raised |-> raised, fetch |-> FALSE, error |-> FALSE ]

\* one run of the start page without a click on the button
StartPage ==
    /\ ~session.loaded
    /\ \E player_name \in Players \cup {NoPlayer},
          start_date \in Dates \cup {NoDate},
          end_date \in Dates \cup {NoDate} :
          session' = [session EXCEPT
                        !.page = Validation(player_name, start_date, end_date)]
    /\ UNCHANGED <<df, out>>

\* a click on "Load Player Data": the run validates, then fetches; the
\* lookup of an unresolved name finds nobody and any fetch may fail
LoadPlayerData ==
    /\ ~session.loaded
    /\ \E player_name \in Players \cup {NoPlayer},
          start_date \in Dates \cup {NoDate},
          end_date \in Dates \cup {NoDate}, ok \in BOOLEAN :
          LET page == Validation(player_name, start_date, end_date)
          IN  /\ ~page.load_button_disabled
              /\ session' =
                   IF ok /\ player_name # NoPlayer
                   THEN [ loaded |-> TRUE, player_name |-> player_name,
                          start_date |-> start_date, end_date |-> end_date,
                          data |-> <<start_date, end_date>>,
                          batting_data |-> <<player_name, start_date, end_date>>,
                          bio |-> player_name, page |-> NoPage ]
                   ELSE [session EXCEPT
                           !.page = [page EXCEPT !.fetch = TRUE,
                                                 !.error = TRUE]]
    /\ UNCHANGED <<df, out>>

\* a click on "Load Data" of the loaded page
Reload ==
    /\ session.loaded
    /\ \E new_player_name \in Players \cup {NoPlayer},
          new_start_date \in Dates, new_end_date \in Dates, ok \in BOOLEAN :
          LET player_changed ==
                  new_player_name # NoPlayer
                      /\ new_player_name # session.player_name
              dates_changed ==
                  new_start_date # session.start_date
                      \/ new_end_date # session.end_date
              load_player ==
                  IF player_changed THEN new_player_name
                  ELSE session.player_name
              stored == [session EXCEPT !.player_name = load_player,
                                        !.start_date = new_start_date,
                                        !.end_date = new_end_date]
          IN  /\ player_changed \/ dates_changed
              /\ session' =
                   IF ok
                   THEN [stored EXCEPT
                           !.bio = load_player,
                           !.data = <<new_start_date, new_end_date>>,
                           !.batting_data =
                               <<load_player, new_start_date, new_end_date>>,
                           !.page = NoPage]
                   ELSE [stored EXCEPT
                           !.page = [NoPage EXCEPT !.fetch = TRUE,
                                                   !.error = TRUE]]
    /\ UNCHANGED <<df, out>>

NextApp ==
    \/ StartPage
    \/ LoadPlayerData
    \/ Reload

SpecApp == Init /\ [][NextApp]_vars

\* C28: after any sequence of load and reload attempts, failed ones
\* included, the stored player_name, start_date and end_date are the ones
\* the stored data, batting_data and bio were fetched for.
C28_SessionConsistent ==
    session.loaded =>
        /\ session.data = <<session.start_date, session.end_date>>
        /\ session.batting_data
             = <<session.player_name, session.start_date, session.end_date>>
        /\ session.bio = session.player_name

\* C28, the other half: a load or reload that shows an error leaves every
\* stored field unchanged.
C28_FailureKeepsSession ==
    [][ session'.page.error =>
          /\ session'.loaded = session.loaded
          /\ session'.player_name = session.player_name
          /\ session'.start_date = session.start_date
          /\ session'.end_date = session.end_date
          /\ session'.data = session.data
          /\ session'.batting_data = session.batting_data
          /\ session'.bio = session.bio ]_vars

\* what the loads do keep: data, batting_data and bio are always those of
\* one fetch
C28_FetchedTogether ==
    session.loaded =>
        /\ session.batting_data
             = <<session.bio, session.data[1], session.data[2]>>
        /\ session.bio \in Players

\* C29: the validation of the start page never raises; the button is
\* enabled only with a valid player, both dates set and start <= end; in
\* every other case an error is recorded and the button is disabled; no
\* fetch is started without a resolved player.
C29_StartPageValidation ==
    LET page == session.page
        complete ==
            /\ page.player_name # NoPlayer
            /\ page.start_date # NoDate /\ page.end_date # NoDate
            /\ page.start_date <= page.end_date
    IN  ~session.loaded =>
            /\ ~page.raised
            /\ ~page.load_button_disabled => complete
            /\ (page # NoPage /\ ~complete)
                  => (page.validation_errors # <<>> /\ page.load_button_disabled)
            /\ page.fetch => page.player_name # NoPlayer

\* what the validation does guarantee: an enabled button has both dates set
\* and start <= end
C29_EnabledHasDates ==
    ~session.page.load_button_disabled =>
        /\ session.page.start_date # NoDate /\ session.page.end_date # NoDate
        /\ session.page.start_date <= session.page.end_date

\* ---------------------------------------------------------------------
\* Count splits of whole plate appearances
\* ---------------------------------------------------------------------
MaxWholeRows == 3   \* rows of the pitch table in the whole-PA runs

WholeSource ==
    [BaseSource EXCEPT !.events = {NaN, "single"},
                       !.balls = {0, 1, 3},
                       !.strikes = {0, 1}]

LoadWhole == AddPitch(WholeSource, MaxWholeRows)

NextWhole ==
    \/ LoadWhole
    \/ CallCount

SpecWhole == Init /\ [][NextWhole]_vars

\* every plate appearance of the table has exactly one outcome row and
\* holds its first pitch, thrown at 0-0
WholePlateAppearances ==
    \A pair \in PairsIn(df.rows) :
        LET Of == { i \in DOMAIN df.rows :
                      /\ df.rows[i].game_pk = pair[1]
                      /\ df.rows[i].at_bat_number = pair[2] }
        IN  /\ Cardinality({i \in Of : df.rows[i].events # NaN}) = 1
            /\ \E i \in Of : /\ df.rows[i].pitch_number = 1
                             /\ df.rows[i].balls = 0
                             /\ df.rows[i].strikes = 0

\* the PA of the row called name, 0 when the table has no such row
PaOfRow(table, name) ==
    IF \E i \in DOMAIN table : table[i].Split = name
    THEN table[CHOOSE i \in DOMAIN table : table[i].Split = name].PA
    ELSE 0

\* C30: when every plate appearance has exactly one outcome row and holds
\* its first pitch at 0-0, the rows "Zero Balls", "Zero Strikes" and "Even
\* Count" carry the same stat fields, those of calculate_stats over all
\* outcome rows; no "After X-Y" row has a larger PA; and PA(After 3-0) <=
\* PA(After 2-0) <= PA(After 1-0).
C30_WholeAggregates ==
    (out.fn = "get_count_splits" /\ WholePlateAppearances /\ df.rows # <<>>) =>
        LET whole == calculate_stats(
                        Frame(df.cols,
                              SelectSeq(df.rows, LAMBDA r : r.events # NaN)))
            table == out.val
        IN  /\ \A name \in {"Zero Balls", "Zero Strikes", "Even Count"} :
                  /\ Cardinality({i \in DOMAIN table : table[i].Split = name}) = 1
                  /\ \A i \in DOMAIN table :
                        table[i].Split = name
                            => table[i] = [Split |-> name] @@ whole
            /\ whole.PA = Cardinality(PairsIn(df.rows))
            /\ \A i \in DOMAIN table :
                  (\E k \in DOMAIN after_counts : table[i].Split = after_counts[k])
                      => table[i].PA <= whole.PA
            /\ PaOfRow(table, "After 3-0") <= PaOfRow(table, "After 2-0")
            /\ PaOfRow(table, "After 2-0") <= PaOfRow(table, "After 1-0")

\* two whole plate appearances, one of them going from 0-0 to 1-0 and the
\* other from 0-0 to 3-0, have been split
C30_Witness ==
    /\ out.fn = "get_count_splits"
    /\ WholePlateAppearances
    /\ Len(df.rows) = 3
    /\ Cardinality(PairsIn(df.rows)) = 2
    /\ PaOfRow(out.val, "Zero Balls") = 2
    /\ PaOfRow(out.val, "After 1-0") = 1
    /\ PaOfRow(out.val, "After 3-0") = 0

\* a plate appearance that reached 3-0 is counted after 3-0, 2-0 and 1-0
C30_ThreeBallsSeen ==
    /\ out.fn = "get_count_splits"
    /\ WholePlateAppearances
    /\ PaOfRow(out.val, "After 3-0") = 1
    /\ PaOfRow(out.val, "After 2-0") = 1
    /\ PaOfRow(out.val, "After 1-0") = 1

====
